---- MODULE Spec2Model ----
(***************************************************************************)
(* Webhook ingestion and inventory-correction pipeline of                  *)
(* fix-negative-stock.                                                     *)
(*                                                                         *)
(* The repository holds several revisions of the webhook server.  A        *)
(* deployment runs exactly one of them; cfg.build selects which:           *)
(*   "p000"  src/unnamed/part_000            express.json + verifyHmac(req)*)
(*   "p002"  src/unnamed/part_002            express.raw + verifyHmac      *)
(*   "p005"  src/unnamed/part_005            express.raw + verifyHmacAll   *)
(*                                           + BYPASS_HMAC                 *)
(* The code after verification (handleInventoryPayload) is the same in     *)
(* all of them.  The verifier of src/unnamed/part_004:770-791 ("p004b")    *)
(* is modelled as well; its route is that of "p005".                       *)
(*                                                                         *)
(* The admin server (src/server.js and its earlier revisions) scans the    *)
(* catalog, decides corrections (shouldFix), applies them in batches       *)
(* (applyBatches) and drives the bulk export job.  It shares no state with *)
(* the webhook server: each program has its own specification below, and   *)
(* the variables of the other programs stay at rest in it.                 *)
(*   Spec, FairSpec   the webhook server                                   *)
(*   VerifySpec       the signature verifiers, called on their own         *)
(*   DecideSpec       shouldFix and the target rule                        *)
(*   BatchSpec        a fix endpoint running applyBatches                  *)
(*   AdminSpec        bulk job control, export file, dry-run endpoints     *)
(*   EnvSpec          GET /env-check                                       *)
(*   ServiceSpec      a deployment: the webhook server or a fix endpoint   *)
(*   BulkFixSpec      export, download and bulk-file fix, remote changing  *)
(*   ReapplySpec      one correction received twice by the remote          *)
(*   ScanSpec         scanAllNegatives and its window of fetches           *)
(*   NdjsonSpec       parseNdjsonLines and the scan of the export file     *)
(*   ExportSpec       the parent and child lines of the export             *)
(*   PagedScanSpec    the pages of the scan and the outcomes of its fetches*)
(*   LimitsSpec       the limits of GET /bulk-dry and GET /bulk-fix        *)
(*   GidSpec          gid and toGidVariant                                 *)
(*   UnconfiguredSpec a deployment without the credentials of the remote   *)
(***************************************************************************)
EXTENDS Integers, Sequences, FiniteSets, TLC

VARIABLES
    cfg,        \* process environment: build, WEBHOOK_SECRET, BYPASS_HMAC
    now,        \* Date.now(), in milliseconds
    ticks,      \* number of clock advances so far
    seen,       \* the dedupe Map: key -> timestamp of insertion
    pending,    \* handlers suspended at `await shopifyGraphQL(...)`
    mutations,  \* outbound inventorySetOnHandQuantities calls, in order
    nReq,       \* number of webhook requests received so far
    last,       \* what the most recent handler step did and answered
    fn,         \* a function called on its own: its arguments and its result
    srv,        \* admin server: revision and credentials of the process
    levels,     \* remote inventory: quantities per (item, location)
    bulkOp,     \* remote currentBulkOperation
    bulkFile,   \* contents of BULK_FILE (/tmp/shopify-bulk.ndjson)
    calls,      \* outbound GraphQL calls of the admin server, in order
    task,       \* the admin request handler in progress
    reply       \* the last response of the admin server

webhookVars == <<cfg, now, ticks, seen, pending, mutations, nReq, last>>
adminVars == <<srv, levels, bulkOp, bulkFile, calls, task, reply>>
vars == <<cfg, now, ticks, seen, pending, mutations, nReq, last,
          fn, srv, levels, bulkOp, bulkFile, calls, task, reply>>

----------------------------------------------------------------------------
(* Bounds of the model *)

MaxReq == 2
MaxTicks == 1

----------------------------------------------------------------------------
(* Program constants *)

SEEN_TTL_MS == 5 * 60 * 1000

Builds == {"p000", "p002", "p005"}

\* builds that read process.env.BYPASS_HMAC
BypassBuilds == {"p004b", "p005"}

\* builds that parse the body with the global express.json() middleware
JsonParserBuilds == {"p000"}

----------------------------------------------------------------------------
(* Inputs *)

\* WEBHOOK_SECRET as configured: unset, or a passphrase
NoSecret == "unset"
Secrets == {NoSecret, "passphrase"}

\* inventory_item_id / location_id: 0 stands for every falsy value
\* (absent, null, 0, '')
Absent == 0
ItemIds == {Absent, 111}
LocIds == {Absent, 222}

\* payload.available: absent/null, a number, or a non-numeric string
AvAbsent == [t |-> "absent", n |-> 0]
AvNum(n) == [t |-> "num", n |-> n]
AvStr == [t |-> "str", n |-> 0]
AvailValues == {AvAbsent, AvNum(-4), AvNum(5), AvStr}

\* raw request bodies
MkBody(kind, item, loc, avail) ==
    [kind |-> kind, item |-> item, loc |-> loc, avail |-> avail]
EmptyBody == MkBody("empty", Absent, Absent, AvAbsent)
NullBody == MkBody("null", Absent, Absent, AvAbsent)
BadBody == MkBody("bad", Absent, Absent, AvAbsent)
ObjBody(item, loc, avail) == MkBody("obj", item, loc, avail)
Bodies ==
    {EmptyBody, NullBody, BadBody}
    \cup {ObjBody(111, 222, a) : a \in AvailValues}
    \cup {ObjBody(Absent, 222, AvNum(-4)), ObjBody(111, Absent, AvNum(-4))}

\* HMAC-SHA256 treated as an injective function of key bytes and body
Hmac(key, body) == <<key, body>>
KeyAscii(secret) == <<"ascii", secret>>
KeyHex(secret) == <<"hex", secret>>
KeyB64(secret) == <<"base64", secret>>
NoKey == <<"none", "none">>

\* X-Shopify-Hmac-Sha256 header: absent/empty, a base64 digest, or a short
\* string that is no digest
MkSig(kind, key, body) == [kind |-> kind, key |-> key, body |-> body]
NoSig == MkSig("none", NoKey, EmptyBody)
ShortSig == MkSig("short", NoKey, EmptyBody)
Base64Digest(key, body) == MkSig("b64", key, body)

\* keys a sender may sign with: the configured secret taken as text,
\* hex-decoded or base64-decoded, or some other secret
SenderKeys(secret) ==
    {KeyAscii("other")}
    \cup (IF secret = NoSecret THEN {} ELSE {KeyAscii(secret)})
    \cup (IF secret \in {"hex64"} THEN {KeyHex(secret)} ELSE {})
    \cup (IF secret \in {"base64="} THEN {KeyB64(secret)} ELSE {})

\* headers that may accompany a body: none, a short string, or the digest of
\* that body under one of the sender's keys
SigHeaders(secret, body) ==
    {NoSig, ShortSig} \cup {Base64Digest(k, body) : k \in SenderKeys(secret)}

----------------------------------------------------------------------------
(* Signature verification *)

\* /^[0-9a-fA-F]+$/.test(secret) && secret.length % 2 === 0
LooksHexEven(secret) == secret \in {"hex64"}

\* /^[0-9a-fA-F]{64}$/.test(secret)
LooksHex64(secret) == secret \in {"hex64"}

\* /^[A-Za-z0-9+/=]+$/.test(secret) && secret.includes('=')
LooksB64(secret) == secret \in {"base64="}

\* Buffers: a length and the bytes
Buf(len, bytes) == [len |-> len, bytes |-> bytes]

\* Buffer.from(str, 'utf8') of a header or digest string: the text itself;
\* a base64 SHA-256 digest is 44 characters long
BufFromUtf8(s) ==
    Buf(CASE s.kind = "none" -> 0 [] s.kind = "short" -> 5 [] OTHER -> 44, s)

\* Buffer.from(str, 'base64'): a base64 digest decodes to its 32 bytes
BufFromBase64(s) ==
    Buf(CASE s.kind = "none" -> 0 [] s.kind = "short" -> 3 [] OTHER -> 32,
        Hmac(s.key, s.body))

\* crypto.timingSafeEqual: throws a RangeError on buffers of unequal length
timingSafeEqual(a, b) ==
    IF a.len # b.len THEN "throw" ELSE IF a.bytes = b.bytes THEN "eq" ELSE "ne"

safeEq(a, b) ==
    IF a.len # b.len THEN FALSE ELSE timingSafeEqual(a, b) = "eq"

\* what a verifier call did: its result, whether it threw, how many HMACs
\* it computed, and the key interpretation that matched
Ver(ran, ok, threw, nHmac, mode) ==
    [ran |-> ran, ok |-> ok, threw |-> threw, nHmac |-> nHmac, mode |-> mode]
NotVerified == Ver(FALSE, FALSE, FALSE, 0, "none")

\* part_000: no guard; crypto.createHmac throws on an undefined key; the
\* base64 strings are compared as utf8 text
verifyHmac_p000(secret, rawBody, signature) ==
    IF secret = NoSecret THEN Ver(TRUE, FALSE, TRUE, 0, "none")
    ELSE LET digest == Base64Digest(KeyAscii(secret), rawBody)
             cmp == timingSafeEqual(BufFromUtf8(digest), BufFromUtf8(signature))
         IN  IF cmp = "throw" THEN Ver(TRUE, FALSE, TRUE, 1, "none")
             ELSE Ver(TRUE, cmp = "eq", FALSE, 1, IF cmp = "eq" THEN "ascii" ELSE "none")

\* part_002: key is the hex-decoded secret when the secret looks like hex,
\* else the secret as text
verifyHmac_p002(secret, rawBody, signatureB64) ==
    IF secret = NoSecret \/ signatureB64.kind = "none"
    THEN Ver(TRUE, FALSE, FALSE, 0, "none")
    ELSE LET key == IF LooksHexEven(secret) THEN KeyHex(secret) ELSE KeyAscii(secret)
             a == BufFromBase64(Base64Digest(key, rawBody))
             b == BufFromBase64(signatureB64)
         IN  IF a.len # b.len THEN Ver(TRUE, FALSE, FALSE, 1, "none")
             ELSE Ver(TRUE, timingSafeEqual(a, b) = "eq", FALSE, 1,
                      IF timingSafeEqual(a, b) = "eq" THEN key[1] ELSE "none")

\* part_004 (second server): ASCII key first, then the hex-decoded key when
\* the secret is 64 hex characters
verifyHmac_p004b(secret, rawBody, signatureB64) ==
    IF secret = NoSecret \/ signatureB64.kind = "none"
    THEN Ver(TRUE, FALSE, FALSE, 0, "none")
    ELSE LET header == BufFromBase64(signatureB64)
             calcAscii == BufFromBase64(Base64Digest(KeyAscii(secret), rawBody))
             calcHex == BufFromBase64(Base64Digest(KeyHex(secret), rawBody))
         IN  IF safeEq(calcAscii, header) THEN Ver(TRUE, TRUE, FALSE, 1, "ascii")
             ELSE IF LooksHex64(secret)
                  THEN IF safeEq(calcHex, header)
                       THEN Ver(TRUE, TRUE, FALSE, 2, "hex")
                       ELSE Ver(TRUE, FALSE, FALSE, 2, "none")
                  ELSE Ver(TRUE, FALSE, FALSE, 1, "none")

\* a verifier that leaves the base64-decoded key out
verifyHmacAll_noBase64(secret, rawBody, signatureB64) ==
    IF secret = NoSecret \/ signatureB64.kind = "none"
    THEN Ver(TRUE, FALSE, FALSE, 0, "none")
    ELSE LET headerBuf == BufFromBase64(signatureB64)
             a_ok == safeEq(BufFromBase64(Base64Digest(KeyAscii(secret), rawBody)), headerBuf)
             tryHex == LooksHexEven(secret)
             h_ok == tryHex /\ safeEq(BufFromBase64(Base64Digest(KeyHex(secret), rawBody)), headerBuf)
             mode == IF a_ok THEN "ascii" ELSE IF h_ok THEN "hex" ELSE "none"
             n == 1 + (IF tryHex THEN 1 ELSE 0)
         IN  Ver(TRUE, mode # "none", FALSE, n, mode)

\* part_005: ASCII, hex-decoded and base64-decoded key are all tried; the
\* reported mode is the first that matched
verifyHmacAll(secret, rawBody, signatureB64) ==
    IF secret = NoSecret \/ signatureB64.kind = "none"
    THEN Ver(TRUE, FALSE, FALSE, 0, "none")
    ELSE LET headerBuf == BufFromBase64(signatureB64)
             a_ok == safeEq(BufFromBase64(Base64Digest(KeyAscii(secret), rawBody)), headerBuf)
             tryHex == LooksHexEven(secret)
             h_ok == tryHex /\ safeEq(BufFromBase64(Base64Digest(KeyHex(secret), rawBody)), headerBuf)
             tryB64 == LooksB64(secret)
             b_ok == tryB64 /\ safeEq(BufFromBase64(Base64Digest(KeyB64(secret), rawBody)), headerBuf)
             mode == IF a_ok THEN "ascii" ELSE IF h_ok THEN "hex"
                     ELSE IF b_ok THEN "base64" ELSE "none"
             n == 1 + (IF tryHex THEN 1 ELSE 0) + (IF tryB64 THEN 1 ELSE 0)
         IN  Ver(TRUE, mode # "none", FALSE, n, mode)

\* part_001 (first server): guarded; the secret as text only; the digests
\* are compared as decoded bytes
verifyHmac_p001a(secret, rawBody, signature) ==
    IF secret = NoSecret \/ signature.kind = "none"
    THEN Ver(TRUE, FALSE, FALSE, 0, "none")
    ELSE LET a == BufFromBase64(Base64Digest(KeyAscii(secret), rawBody))
             b == BufFromBase64(signature)
         IN  IF a.len # b.len THEN Ver(TRUE, FALSE, FALSE, 1, "none")
             ELSE Ver(TRUE, timingSafeEqual(a, b) = "eq", FALSE, 1,
                      IF timingSafeEqual(a, b) = "eq" THEN "ascii" ELSE "none")

\* part_004 (first server): guarded; the secret as text only; the base64
\* strings are compared as utf8 text after a length check
verifyHmac_p004a(secret, rawBody, signature) ==
    IF secret = NoSecret \/ signature.kind = "none"
    THEN Ver(TRUE, FALSE, FALSE, 0, "none")
    ELSE LET a == BufFromUtf8(Base64Digest(KeyAscii(secret), rawBody))
             b == BufFromUtf8(signature)
         IN  IF a.len # b.len THEN Ver(TRUE, FALSE, FALSE, 1, "none")
             ELSE Ver(TRUE, timingSafeEqual(a, b) = "eq", FALSE, 1,
                      IF timingSafeEqual(a, b) = "eq" THEN "ascii" ELSE "none")

\* the verifier of the running build
Verify(build, secret, rawBody, signature) ==
    CASE build = "p000" -> verifyHmac_p000(secret, rawBody, signature)
      [] build = "p001a" -> verifyHmac_p001a(secret, rawBody, signature)
      [] build = "p002" -> verifyHmac_p002(secret, rawBody, signature)
      [] build = "p004a" -> verifyHmac_p004a(secret, rawBody, signature)
      [] build = "p004b" -> verifyHmac_p004b(secret, rawBody, signature)
      [] OTHER -> verifyHmacAll(secret, rawBody, signature)

----------------------------------------------------------------------------
(* Body parsing *)

Payload(item, loc, avail) == [item |-> item, loc |-> loc, avail |-> avail]
EmptyPayload == Payload(Absent, Absent, AvAbsent)

\* raw builds: txt ? (JSON.parse(txt) ?? {}) : {}, and {} on a parse error
ParseTolerant(body) ==
    IF body.kind = "obj" THEN Payload(body.item, body.loc, body.avail)
    ELSE EmptyPayload

\* express.json() (strict): an empty body gives {}, an object is parsed;
\* anything else is a parse error answered by express before the route runs
JsonParserRejects(body) == body.kind \in {"null", "bad"}

\* Number(payload.available ?? 0)
NumberOf(avail) ==
    CASE avail.t = "absent" -> [nan |-> FALSE, n |-> 0]
      [] avail.t = "num" -> [nan |-> FALSE, n |-> avail.n]
      [] OTHER -> [nan |-> TRUE, n |-> 0]

----------------------------------------------------------------------------
(* Responses *)

Resp(status, ok, tag, available) ==
    [status |-> status, ok |-> ok, tag |-> tag, available |-> available]
NoAvail == [nan |-> FALSE, n |-> 0]
NoResp == Resp(0, FALSE, "none", NoAvail)
BadHmac == Resp(401, FALSE, "Bad HMAC", NoAvail)
ParseError400 == Resp(400, FALSE, "parse error", NoAvail)
Ignored == Resp(200, TRUE, "ignored", NoAvail)
Deduped == Resp(200, TRUE, "deduped", NoAvail)
NotNegative(avail) == Resp(200, TRUE, "negative:false", avail)
Fixed == Resp(200, TRUE, "fixed", NoAvail)
UserErrors == Resp(200, FALSE, "userErrors", NoAvail)
CaughtError == Resp(200, FALSE, "error", NoAvail)

----------------------------------------------------------------------------
(* Dedupe cache and decision *)

Falsy(id) == id = Absent

\* a key that leaves the observed quantity out
seenKey_noAvailable(itemId, locId, available) == <<itemId, locId, [nan |-> FALSE, n |-> 0]>>

seenKey(itemId, locId, available) == <<itemId, locId, available>>

\* a sweep that already removes an entry whose age equals the TTL
gcSeen_offByOne(seenMap, t) ==
    [k \in {x \in DOMAIN seenMap : ~(t - seenMap[x] >= SEEN_TTL_MS)} |-> seenMap[k]]

\* a sweep that removes nothing
gcSeen_noSweep(seenMap, t) == seenMap

\* for (const [k,ts] of seen) if (now-ts > SEEN_TTL_MS) seen.delete(k)
gcSeen(seenMap, t) ==
    [k \in {x \in DOMAIN seenMap : ~(t - seenMap[x] > SEEN_TTL_MS)} |-> seenMap[k]]

\* seen.set(key, Date.now())
SeenSet(seenMap, key, t) ==
    [k \in DOMAIN seenMap \cup {key} |-> IF k = key THEN t ELSE seenMap[k]]

\* avail > 0 in place of avail >= 0
IsNonNegative_strict(avail) == ~avail.nan /\ avail.n > 0

\* avail >= 0 (false for NaN)
IsNonNegative(avail) == ~avail.nan /\ avail.n >= 0

gid(type, id) == <<"gid://shopify", type, id>>

MutationReason(build) ==
    IF build = "p000" THEN "auto-fix-negative-available" ELSE "correction"

\* an input whose two identifiers are swapped
SetOnHandInput_swapped(build, itemId, locId) ==
    [reason |-> MutationReason(build),
     setQuantities |-> << [inventoryItemId |-> gid("InventoryItem", locId),
                           locationId |-> gid("Location", itemId),
                           quantity |-> 0] >>]

\* the input of the inventorySetOnHandQuantities mutation
SetOnHandInput(build, itemId, locId) ==
    [reason |-> MutationReason(build),
     setQuantities |-> << [inventoryItemId |-> gid("InventoryItem", itemId),
                           locationId |-> gid("Location", locId),
                           quantity |-> 0] >>]
NoInput == SetOnHandInput("none", Absent, Absent)

\* what one run of a handler up to its first suspension did
Out(ver, resp, seenMap, send, input, swept) ==
    [ver |-> ver, resp |-> resp, seen |-> seenMap, send |-> send, input |-> input,
     swept |-> swept]

\* a handler that marks the key only after the remote call has settled
handleInventoryPayload_marksAfterCall(build, ver, payload, seenMap, t) ==
    LET itemId == payload.item
        locId == payload.loc
        avail == NumberOf(payload.avail)
        swept == gcSeen(seenMap, t)
        key == seenKey(itemId, locId, avail)
        nSwept == Cardinality(DOMAIN seenMap) - Cardinality(DOMAIN swept)
    IN  IF Falsy(itemId) \/ Falsy(locId)
        THEN Out(ver, Ignored, seenMap, FALSE, NoInput, 0)
        ELSE IF key \in DOMAIN swept
        THEN Out(ver, Deduped, swept, FALSE, NoInput, nSwept)
        ELSE IF IsNonNegative(avail)
        THEN Out(ver, NotNegative(avail), SeenSet(swept, key, t), FALSE, NoInput, nSwept)
        ELSE Out(ver, NoResp, swept, TRUE,
                 SetOnHandInput(build, itemId, locId), nSwept)

\* handleInventoryPayload up to `await shopifyGraphQL`
handleInventoryPayload(build, ver, payload, seenMap, t) ==
    LET itemId == payload.item
        locId == payload.loc
        avail == NumberOf(payload.avail)
        swept == gcSeen(seenMap, t)
        key == seenKey(itemId, locId, avail)
        nSwept == Cardinality(DOMAIN seenMap) - Cardinality(DOMAIN swept)
    IN  IF Falsy(itemId) \/ Falsy(locId)
        THEN Out(ver, Ignored, seenMap, FALSE, NoInput, 0)
        ELSE IF key \in DOMAIN swept
        THEN Out(ver, Deduped, swept, FALSE, NoInput, nSwept)
        ELSE IF IsNonNegative(avail)
        THEN Out(ver, NotNegative(avail), SeenSet(swept, key, t), FALSE, NoInput, nSwept)
        ELSE Out(ver, NoResp, SeenSet(swept, key, t), TRUE,
                 SetOnHandInput(build, itemId, locId), nSwept)

\* POST /webhooks/inventory_levels/update behind express.raw
RouteRaw(c, body, sig, seenMap, t) ==
    LET ver == Verify(c.build, c.secret, body, sig)
    IN  IF ~ver.ok /\ ~c.bypass
        THEN Out(ver, BadHmac, seenMap, FALSE, NoInput, 0)
        ELSE handleInventoryPayload(c.build, ver, ParseTolerant(body), seenMap, t)

\* POST /webhooks/inventory_levels/update behind the global express.json()
RouteJson(c, body, sig, seenMap, t) ==
    IF JsonParserRejects(body)
    THEN Out(NotVerified, ParseError400, seenMap, FALSE, NoInput, 0)
    ELSE LET ver == Verify(c.build, c.secret, body, sig)
         IN  IF ver.threw THEN Out(ver, CaughtError, seenMap, FALSE, NoInput, 0)
             ELSE IF ~ver.ok THEN Out(ver, BadHmac, seenMap, FALSE, NoInput, 0)
             ELSE handleInventoryPayload(c.build, ver, ParseTolerant(body), seenMap, t)

Route(c, body, sig, seenMap, t) ==
    IF c.build \in JsonParserBuilds
    THEN RouteJson(c, body, sig, seenMap, t)
    ELSE RouteRaw(c, body, sig, seenMap, t)

\* the handler after the remote call settled
ResumeResp(outcome) ==
    CASE outcome = "ok" -> Fixed
      [] outcome = "userErrors" -> UserErrors
      [] OTHER -> CaughtError

----------------------------------------------------------------------------
(* State machine *)

\* step: "receive" (a handler ran up to its response or its suspension) or
\* "resume" (a suspended handler continued); ver: what the verifier did;
\* outcome: how the remote call settled; resp: the response sent (NoResp
\* while suspended); swept: entries the sweep removed
Event(step, ver, outcome, resp, swept) ==
    [step |-> step, ver |-> ver, outcome |-> outcome, resp |-> resp,
     swept |-> swept]
NoEvent == Event("none", NotVerified, "none", NoResp, 0)

Outcomes == {"ok", "userErrors", "throw"}

\* the clock advances by exactly the TTL, or by one millisecond more
TickSteps == {SEEN_TTL_MS, SEEN_TTL_MS + 1}

\* no function is being called on its own
NoCall == [op |-> "none"]

\* the admin server is not running
AdminAtRest ==
    /\ srv = [rev |-> "none"]
    /\ levels = << >>
    /\ bulkOp = [status |-> "none"]
    /\ bulkFile = [exists |-> FALSE]
    /\ calls = << >>
    /\ task = [at |-> "none"]
    /\ reply = [status |-> 0]

\* no webhook is in progress
WebhookAtRest ==
    /\ now = 0
    /\ ticks = 0
    /\ seen = << >>
    /\ pending = {}
    /\ mutations = << >>
    /\ nReq = 0
    /\ last = NoEvent

Init ==
    /\ cfg \in {c \in [build : Builds, secret : Secrets, bypass : BOOLEAN] :
                    c.bypass => c.build \in BypassBuilds}
    /\ WebhookAtRest
    /\ fn = NoCall
    /\ AdminAtRest

\* a webhook request arrives and its handler runs to its first suspension
Webhook(body, sig) ==
    /\ nReq < MaxReq
    /\ nReq' = nReq + 1
    /\ \E r \in {Route(cfg, body, sig, seen, now)} :
           /\ last' = Event("receive", r.ver, "none", r.resp, r.swept)
           /\ seen' = r.seen
           /\ mutations' = IF r.send
                           THEN Append(mutations, r.input)
                           ELSE mutations
           /\ pending' = IF r.send
                         THEN pending \cup {[id |-> nReq + 1, call |-> "sent"]}
                         ELSE pending
    /\ UNCHANGED <<cfg, now, ticks, fn, adminVars>>

\* the remote API settles an outstanding call (fetch resolves or rejects)
RemoteAnswer(p) ==
    /\ p \in pending
    /\ p.call = "sent"
    /\ pending' = (pending \ {p}) \cup {[p EXCEPT !.call = "settled"]}
    /\ UNCHANGED <<cfg, now, ticks, seen, mutations, nReq, last, fn, adminVars>>

\* a handler that sends its mutation again when the call failed
Resume_retries(p, outcome) ==
    /\ p \in pending
    /\ p.call = "settled"
    /\ IF outcome = "ok"
       THEN /\ pending' = pending \ {p}
            /\ mutations' = mutations
       ELSE /\ pending' = (pending \ {p}) \cup {[p EXCEPT !.call = "sent"]}
            /\ mutations' = Append(mutations, mutations[Len(mutations)])
    /\ last' = Event("resume", NotVerified, outcome, ResumeResp(outcome), 0)
    /\ UNCHANGED <<cfg, now, ticks, seen, nReq, fn, adminVars>>

\* a handler that takes the keys of negative events out of the cache when
\* the call failed
Resume_forgets(p, outcome) ==
    /\ p \in pending
    /\ p.call = "settled"
    /\ pending' = pending \ {p}
    /\ seen' = IF outcome = "ok" THEN seen
               ELSE [k \in {x \in DOMAIN seen : IsNonNegative(x[3])} |-> seen[k]]
    /\ last' = Event("resume", NotVerified, outcome, ResumeResp(outcome), 0)
    /\ UNCHANGED <<cfg, now, ticks, mutations, nReq, fn, adminVars>>

\* the suspended handler continues with what the call settled to, and responds
Resume(p, outcome) ==
    /\ p \in pending
    /\ p.call = "settled"
    /\ pending' = pending \ {p}
    /\ last' = Event("resume", NotVerified, outcome, ResumeResp(outcome), 0)
    /\ UNCHANGED <<cfg, now, ticks, seen, mutations, nReq, fn, adminVars>>

\* time passes
Tick(step) ==
    /\ ticks < MaxTicks
    /\ ticks' = ticks + 1
    /\ now' = now + step
    /\ UNCHANGED <<cfg, seen, pending, mutations, nReq, last, fn, adminVars>>

Next ==
    \/ \E body \in Bodies : \E sig \in SigHeaders(cfg.secret, body) : Webhook(body, sig)
    \/ \E p \in pending : RemoteAnswer(p)
    \/ \E p \in pending : \E o \in Outcomes : Resume(p, o)
    \/ \E step \in TickSteps : Tick(step)

Spec == Init /\ [][Next]_vars

\* the event loop runs a continuation whose call has settled, and time
\* passes; the remote API is under no obligation to answer, and no new
\* request has to arrive
FairSpec ==
    /\ Spec
    /\ WF_vars(\E p \in pending : \E o \in Outcomes : Resume(p, o))
    /\ WF_vars(\E step \in TickSteps : Tick(step))

----------------------------------------------------------------------------
(* Properties *)

\* the header is no digest of this body under the configured secret: no
\* secret is configured, the header is absent or no digest, or it is the
\* digest of another secret or of another body
SignatureInvalid(secret, body, sig) ==
    \/ secret = NoSecret
    \/ sig.kind # "b64"
    \/ sig.key[2] # secret
    \/ sig.body # body

\* the header is base64(HMAC-SHA256(secret as given, body))
SignedAsGiven(secret, body, sig) ==
    secret # NoSecret /\ sig = Base64Digest(KeyAscii(secret), body)

\* the verifier of the running build accepts the header for the body
Verified(body, sig) == Verify(cfg.build, cfg.secret, body, sig).ok

IdsPresent(body) == body.kind = "obj" /\ body.item # Absent /\ body.loc # Absent

\* the dedupe key of the event carried by a body
KeyOf(body) == <<body.item, body.loc, NumberOf(body.avail)>>

\* available is a number below zero
AvailNegative(body) == body.avail.t = "num" /\ body.avail.n < 0

\* available is a number that is not below zero (an absent one counts as 0)
AvailNonNegative(body) ==
    \/ body.avail.t = "absent"
    \/ body.avail.t = "num" /\ body.avail.n >= 0

\* C1: a request whose signature does not verify against the configured
\* secret (wrong digest, missing header, no secret) is answered 401, sends
\* nothing to the remote API and adds nothing to the dedupe cache.
C1_InvalidSignatureRejected ==
    [][\A body \in Bodies : \A sig \in SigHeaders(cfg.secret, body) :
          (SignatureInvalid(cfg.secret, body, sig) /\ Webhook(body, sig))
          => /\ last'.resp.status = 401
             /\ mutations' = mutations
             /\ pending' = pending
             /\ seen' = seen]_vars

\* C2: a verified event with both identifiers, a key that is not in the
\* cache and available < 0 sends exactly one mutation with exactly one
\* entry, quantity 0, for that item and location; the resumed handler sends
\* nothing more and answers 200 {ok: true, fixed: true} when the mutation
\* reported no user errors.
C2_NegativeIsZeroedOnce ==
    [][/\ \A body \in Bodies : \A sig \in SigHeaders(cfg.secret, body) :
            (/\ IdsPresent(body)
             /\ AvailNegative(body)
             /\ KeyOf(body) \notin DOMAIN seen
             /\ Verified(body, sig)
             /\ Webhook(body, sig)
             /\ last'.ver.ok)
            => /\ Len(mutations') = Len(mutations) + 1
               /\ SubSeq(mutations', 1, Len(mutations)) = mutations
               /\ LET q == mutations'[Len(mutations')].setQuantities
                  IN  /\ Len(q) = 1
                      /\ q[1].quantity = 0
                      /\ q[1].inventoryItemId = <<"gid://shopify", "InventoryItem", body.item>>
                      /\ q[1].locationId = <<"gid://shopify", "Location", body.loc>>
       /\ \A p \in pending : \A o \in Outcomes :
            Resume(p, o)
            => /\ mutations' = mutations
               /\ (o = "ok" => last'.resp = Resp(200, TRUE, "fixed", NoAvail))]_vars

C2_Witness ==
    /\ last.step = "resume"
    /\ last.outcome = "ok"
    /\ last.resp.tag = "fixed"
    /\ Len(mutations) = 1
    /\ pending = {}

\* C3: a verified event whose key was entered in the cache no more than
\* TTL ago is answered 200 {ok: true, deduped: true} and sends no mutation.
C3_ReplayWithinTtlDeduped ==
    [][\A body \in Bodies : \A sig \in SigHeaders(cfg.secret, body) :
          (/\ IdsPresent(body)
           /\ KeyOf(body) \in DOMAIN seen
           /\ now - seen[KeyOf(body)] <= SEEN_TTL_MS
           /\ Verified(body, sig)
           /\ Webhook(body, sig)
           /\ last'.ver.ok)
          => /\ last'.resp = Resp(200, TRUE, "deduped", NoAvail)
             /\ mutations' = mutations
             /\ pending' = pending]_vars

C3_Witness ==
    /\ last.step = "receive"
    /\ last.resp.tag = "deduped"
    /\ now = SEEN_TTL_MS
    /\ Len(mutations) = 1

\* C4: a verified, non-duplicate event with both identifiers and
\* available >= 0 is answered 200 {ok: true, negative: false, available}
\* with its own available, and sends no mutation.
C4_NonNegativeLeftAlone ==
    [][\A body \in Bodies : \A sig \in SigHeaders(cfg.secret, body) :
          (/\ IdsPresent(body)
           /\ AvailNonNegative(body)
           /\ \/ KeyOf(body) \notin DOMAIN seen
              \/ now - seen[KeyOf(body)] > SEEN_TTL_MS
           /\ Verified(body, sig)
           /\ Webhook(body, sig)
           /\ last'.ver.ok)
          => /\ last'.resp = Resp(200, TRUE, "negative:false",
                                  [nan |-> FALSE, n |-> body.avail.n])
             /\ mutations' = mutations
             /\ pending' = pending]_vars

C4_Witness ==
    /\ last.step = "receive"
    /\ last.resp.status = 200
    /\ last.resp.tag = "negative:false"
    /\ last.resp.available.n = 5
    /\ mutations = << >>

\* the verifier ran and returned false
VerificationFailed(v) == v.ran /\ ~v.ok /\ ~v.threw

\* C5: every response of the webhook route is 401 or 200; it is 401 exactly
\* when signature verification failed; user errors, a throwing remote call
\* and an exception inside the verifier all give 200 with ok = false.
C5_Only401Or200 ==
    [][/\ \A body \in Bodies : \A sig \in SigHeaders(cfg.secret, body) :
            Webhook(body, sig)
            => /\ last'.resp # NoResp => last'.resp.status \in {200, 401}
               /\ (last'.resp.status = 401) <=> VerificationFailed(last'.ver)
               /\ last'.ver.threw => (last'.resp.status = 200 /\ ~last'.resp.ok)
       /\ \A p \in pending : \A o \in Outcomes :
            Resume(p, o)
            => /\ last'.resp.status = 200
               /\ (o # "ok" => ~last'.resp.ok)]_vars

\* C6: every webhook request eventually receives a response, whatever the
\* remote API does: no handler stays suspended on its remote call forever.
C6_EveryRequestAnswered ==
    \A id \in 1..MaxReq :
        (\E p \in pending : p.id = id) ~> ~(\E p \in pending : p.id = id)

\* C7: a key is a duplicate for a check made at the time it was marked, and
\* not a duplicate for a check made later than that time plus TTL; such a
\* check first removes every entry older than TTL.
C7_DuplicateUntilTtl ==
    [][\A body \in Bodies : \A sig \in SigHeaders(cfg.secret, body) :
          (/\ IdsPresent(body)
           /\ Verified(body, sig)
           /\ Webhook(body, sig)
           /\ last'.ver.ok)
          => /\ (KeyOf(body) \in DOMAIN seen /\ now = seen[KeyOf(body)])
                => last'.resp.tag = "deduped"
             /\ (KeyOf(body) \in DOMAIN seen /\ now > seen[KeyOf(body)] + SEEN_TTL_MS)
                => (last'.resp.tag # "deduped" /\ seen'[KeyOf(body)] = now)
             /\ \A k \in DOMAIN seen :
                  (now > seen[k] + SEEN_TTL_MS /\ k # KeyOf(body))
                  => k \notin DOMAIN seen']_vars

C7_Witness ==
    /\ last.step = "receive"
    /\ last.ver.ok
    /\ last.swept = 1
    /\ last.resp.tag # "deduped"
    /\ now = SEEN_TTL_MS + 1
    /\ nReq = 2
    /\ \E k \in DOMAIN seen : DOMAIN seen = {k} /\ seen[k] = now

\* C8: an event is never deduplicated against an entry for the same item
\* and location with another available: with no entry for its own
\* available in the cache it is processed as a new event.
C8_KeyIncludesAvailable ==
    [][\A body \in Bodies : \A sig \in SigHeaders(cfg.secret, body) :
          (/\ IdsPresent(body)
           /\ body.avail.t \in {"absent", "num"}
           /\ <<body.item, body.loc, NumberOf(body.avail)>> \notin DOMAIN seen
           /\ Verified(body, sig)
           /\ Webhook(body, sig)
           /\ last'.ver.ok)
          => /\ last'.resp.tag # "deduped"
             /\ AvailNegative(body) => Len(mutations') = Len(mutations) + 1
             /\ AvailNonNegative(body) => last'.resp.tag = "negative:false"]_vars

C8_Witness ==
    /\ last.step = "receive"
    /\ last.ver.ok
    /\ ticks = 0
    /\ Cardinality(DOMAIN seen) = 2
    /\ \A k \in DOMAIN seen : k[1] = 111 /\ k[2] = 222
    /\ last.resp = NoResp
    /\ Len(mutations) = 1

\* C9: a request with a valid signature whose body is empty, null or not
\* JSON is handled as the payload {}: 200 with ok = true and an 'ignored'
\* marker, no dedupe entry, no outbound call.
C9_MalformedBodyIgnored ==
    [][\A body \in {EmptyBody, NullBody, BadBody} :
       \A sig \in SigHeaders(cfg.secret, body) :
          (SignedAsGiven(cfg.secret, body, sig) /\ Webhook(body, sig))
          => /\ last'.resp = Resp(200, TRUE, "ignored", NoAvail)
             /\ seen' = seen
             /\ mutations' = mutations
             /\ pending' = pending]_vars

\* C10: with no secret configured, or with an absent or empty signature
\* header, the verifier returns false, computes no HMAC and raises nothing.
C10_VerifierGuard ==
    [][\A body \in Bodies : \A sig \in SigHeaders(cfg.secret, body) :
          (/\ (cfg.secret = NoSecret \/ sig.kind = "none")
           /\ Webhook(body, sig)
           /\ last'.ver.ran)
          => /\ ~last'.ver.ok
             /\ ~last'.ver.threw
             /\ last'.ver.nHmac = 0]_vars

\* keys in the cache whose event called for a correction
NegativeKeys == {k \in DOMAIN seen : ~IsNonNegative(k[3])}

\* C21: while every event so far arrived within one TTL window, the
\* handlers have sent at most one mutation per (item, location, available)
\* key, however many of them ran and wherever the suspended ones stand:
\* sweep, membership check and insertion are one step of a handler.
C21_OneMutationPerKey ==
    now <= SEEN_TTL_MS => Len(mutations) <= Cardinality(NegativeKeys)

\* a second handler for the same key ran while the first was still
\* suspended on its call
C21_Witness ==
    /\ now <= SEEN_TTL_MS
    /\ nReq = 2
    /\ last.step = "receive"
    /\ last.resp.tag = "deduped"
    /\ \E p \in pending : p.id = 1 /\ p.call = "sent"
    /\ Len(mutations) = 1
    /\ Cardinality(NegativeKeys) = 1

\* C35: a mutation goes out only for a payload whose available is a number
\* below zero; an absent or null available counts as 0 and a value that is no
\* number sends nothing.
C35_OnlyNegativeNumbers ==
    [][\A body \in Bodies : \A sig \in SigHeaders(cfg.secret, body) :
          (Webhook(body, sig) /\ mutations' # mutations)
          => AvailNegative(body)]_vars

\* the key of the event is in the cache with the time of this step
MarkedNow(body) ==
    /\ KeyOf(body) \in DOMAIN seen'
    /\ seen'[KeyOf(body)] = now

\* C36: the step that sends the mutation has put the key in the cache; the
\* handler resumed after user errors or a throw leaves the cache as it is;
\* and the same event received again within the TTL after such a failure
\* is answered deduped and sends nothing.
C36_FailureKeepsKey ==
    [][/\ \A p \in pending : \A o \in {"userErrors", "throw"} :
            Resume(p, o) => seen' = seen
       /\ mutations' # mutations =>
            \A body \in Bodies : \A sig \in SigHeaders(cfg.secret, body) :
                Webhook(body, sig) => MarkedNow(body)
       /\ (/\ last.step = "resume"
           /\ last.outcome \in {"userErrors", "throw"}
           /\ nReq' # nReq) =>
            \A body \in Bodies : \A sig \in SigHeaders(cfg.secret, body) :
                (/\ IdsPresent(body)
                 /\ AvailNegative(body)
                 /\ KeyOf(body) \in DOMAIN seen
                 /\ now - seen[KeyOf(body)] <= SEEN_TTL_MS
                 /\ Verified(body, sig)
                 /\ Webhook(body, sig)
                 /\ last'.ver.ok)
                => /\ last'.resp = Resp(200, TRUE, "deduped", NoAvail)
                   /\ mutations' = mutations
                   /\ pending' = pending
                   /\ KeyOf(body) \in DOMAIN seen'
                   /\ seen'[KeyOf(body)] = seen[KeyOf(body)]]_vars

\* the mutation of a negative event has failed, its key is still in the
\* cache, and a second request can arrive
C36_Witness ==
    /\ last.step = "resume"
    /\ last.outcome = "throw"
    /\ nReq = 1
    /\ pending = {}
    /\ Len(mutations) = 1
    /\ Cardinality(NegativeKeys) = 1
    /\ \A k \in NegativeKeys : now - seen[k] <= SEEN_TTL_MS

\* C37: the cache changes only by the sweep and the insertion made for a
\* verified event that carries both identifiers and is no duplicate: the
\* entry gets the current time whatever the sign of available; a duplicate
\* leaves its entry as it was; a rejected or ignored event, a resumed
\* handler and the passing of time leave the cache unchanged.
C37_CacheFrame ==
    [][/\ \A body \in Bodies : \A sig \in SigHeaders(cfg.secret, body) :
            Webhook(body, sig) =>
                IF Verified(body, sig) /\ IdsPresent(body)
                THEN LET swept == gcSeen(seen, now)
                     IN  IF KeyOf(body) \in DOMAIN swept
                         THEN seen' = swept
                         ELSE seen' = SeenSet(swept, KeyOf(body), now)
                ELSE seen' = seen
       /\ (\A body \in Bodies : \A sig \in SigHeaders(cfg.secret, body) :
              ~Webhook(body, sig)) => seen' = seen]_vars

----------------------------------------------------------------------------
(* The signature verifiers called on their own *)

\* every revision of the verifier
VerifierBuilds == {"p000", "p001a", "p002", "p004a", "p004b", "p005"}

\* a passphrase, 64 hex characters, or base64 text with padding
VerifySecrets == {"passphrase", "hex64", "base64="}

VerifyBodies ==
    {EmptyBody, BadBody, ObjBody(111, 222, AvNum(-4)), ObjBody(111, 222, AvNum(5))}

\* a header next to a body: none, a short string, or the digest of any body
\* under one of the sender's keys
VerifyHeaders(secret) ==
    {NoSig, ShortSig}
    \cup {Base64Digest(k, b) : k \in SenderKeys(secret), b \in VerifyBodies}

VerifyCalled(body, sig, ver) ==
    [op |-> "verify", body |-> body, sig |-> sig, ver |-> ver]

VerifyInit ==
    /\ cfg \in [build : VerifierBuilds, secret : VerifySecrets, bypass : {FALSE}]
    /\ WebhookAtRest
    /\ fn = NoCall
    /\ AdminAtRest

\* the verifier is called with a body and a header
VerifyCall(body, sig) ==
    /\ fn' = VerifyCalled(body, sig, Verify(cfg.build, cfg.secret, body, sig))
    /\ UNCHANGED <<webhookVars, adminVars>>

VerifyNext ==
    \E body \in VerifyBodies : \E sig \in VerifyHeaders(cfg.secret) : VerifyCall(body, sig)

VerifySpec == VerifyInit /\ [][VerifyNext]_vars

\* C11: a header that is base64(HMAC-SHA256(secret as given, body)) is
\* accepted by the verifier configured with that secret and given that body,
\* and a header that is such a digest of another body is rejected.
C11_SignThenVerify ==
    fn.op = "verify"
    => /\ fn.sig = Base64Digest(KeyAscii(cfg.secret), fn.body) => fn.ver.ok
       /\ (/\ fn.sig.kind = "b64"
           /\ fn.sig.key = KeyAscii(cfg.secret)
           /\ fn.sig.body # fn.body) => ~fn.ver.ok

\* the key interpretations a multi-encoding verifier attempts, in order:
\* verifyHmacAll tries the three, verifyHmac of part_004 the first two
ModeOrder == <<"ascii", "hex", "base64">>

Attempted(build, secret, sig) ==
    IF secret = NoSecret \/ sig.kind = "none" THEN {}
    ELSE {KeyAscii(secret)}
         \cup (IF (build = "p005" /\ LooksHexEven(secret))
                    \/ (build = "p004b" /\ LooksHex64(secret))
                THEN {KeyHex(secret)} ELSE {})
         \cup (IF build = "p005" /\ LooksB64(secret) THEN {KeyB64(secret)} ELSE {})

\* the header decodes to the digest of the body under the key
HeaderDigestIs(sig, key, body) ==
    sig.kind = "b64" /\ Hmac(sig.key, sig.body) = Hmac(key, body)

\* C34: the multi-encoding verifiers accept exactly when the header digest
\* equals the digest of the body under one of the attempted key
\* interpretations, and the mode reported is the first of ASCII, hex,
\* base64 that matches, none when no interpretation does.
C34_FirstMatchWins ==
    (fn.op = "verify" /\ cfg.build \in {"p004b", "p005"}) =>
        LET matching == {k \in Attempted(cfg.build, cfg.secret, fn.sig) :
                            HeaderDigestIs(fn.sig, k, fn.body)}
            modes == {i \in 1..Len(ModeOrder) : \E k \in matching : k[1] = ModeOrder[i]}
        IN  /\ fn.ver.ok <=> matching # {}
            /\ fn.ver.mode = IF modes = {} THEN "none"
                              ELSE ModeOrder[CHOOSE i \in modes : \A j \in modes : i <= j]

\* verifyHmacAll accepted a header signed with the base64-decoded secret
C34_Witness ==
    /\ fn.op = "verify"
    /\ cfg.build = "p005"
    /\ cfg.secret = "base64="
    /\ fn.sig = Base64Digest(KeyB64("base64="), fn.body)
    /\ fn.ver.ok
    /\ fn.ver.mode = "base64"

----------------------------------------------------------------------------
(* The correction decision: shouldFix and the target rule *)

\* revisions of shouldFix: "srvA" is src/server.js:174-180 (the same
\* expression is in part_004:301-310 and inline in server.js:314), "p001b"
\* is part_001:323-334, "p003" is part_003:90-96
DecideBuilds == {"srvA", "p001b", "p003"}

\* revisions whose callers compute a target (part_001 never calls shouldFix)
TargetBuilds == {"srvA", "p003"}

\* quantities of a level; a missing quantity is read as 0 (map.x ?? 0)
Quantities == {-3, 0, 2, 5}

Snapshots ==
    [on_hand : Quantities, available : Quantities,
     committed : Quantities, incoming : Quantities]

\* on_hand <= 0 in place of on_hand < 0
shouldFix_zeroOnHand(map, raise) ==
    \/ map.on_hand <= 0
    \/ /\ map.available < 0
       /\ (map.committed = 0 \/ (raise /\ map.committed > 0))
       /\ map.incoming = 0

\* the test on incoming left out
shouldFix_noIncoming(map, raise) ==
    \/ map.on_hand < 0
    \/ /\ map.available < 0
       /\ (map.committed = 0 \/ (raise /\ map.committed > 0))

shouldFix(map, raise) ==
    \/ map.on_hand < 0
    \/ /\ map.available < 0
       /\ (map.committed = 0 \/ (raise /\ map.committed > 0))
       /\ map.incoming = 0

shouldFix_p001b(map, raise) ==
    IF map.on_hand < 0 THEN TRUE
    ELSE IF map.available < 0 /\ map.incoming = 0
         THEN (IF ~raise THEN map.committed = 0 ELSE TRUE)
         ELSE FALSE

\* part_003: the function has no raise parameter
shouldFix_p003(map) ==
    \/ map.on_hand < 0
    \/ (map.available < 0 /\ map.committed = 0 /\ map.incoming = 0)

ShouldFixOf(build, map, raise) ==
    CASE build = "srvA" -> shouldFix(map, raise)
      [] build = "p001b" -> shouldFix_p001b(map, raise)
      [] OTHER -> shouldFix_p003(map)

\* a target that follows committed whatever the flag
Target_ignoresRaise(map, raise) ==
    IF map.committed > 0 THEN map.committed ELSE 0

\* (raise && (m.committed ?? 0) > 0) ? (m.committed ?? 0) : 0
Target(map, raise) ==
    IF raise /\ map.committed > 0 THEN map.committed ELSE 0

NoTarget == -1

\* what the scan does with one level: push a correction with its target,
\* or nothing
Decision(build, map, raise) ==
    [op |-> "decide", build |-> build, map |-> map, raise |-> raise,
     fix |-> ShouldFixOf(build, map, raise),
     target |-> IF ShouldFixOf(build, map, raise) /\ build \in TargetBuilds
                THEN Target(map, raise)
                ELSE NoTarget]

DecideInit ==
    /\ cfg = [build |-> "none", secret |-> NoSecret, bypass |-> FALSE]
    /\ WebhookAtRest
    /\ fn \in [op : {"level"}, build : DecideBuilds, map : Snapshots, raise : BOOLEAN]
    /\ AdminAtRest

\* the scan reaches the level and decides
Decide ==
    /\ fn.op = "level"
    /\ fn' = Decision(fn.build, fn.map, fn.raise)
    /\ UNCHANGED <<webhookVars, adminVars>>

DecideNext == Decide

DecideSpec == DecideInit /\ [][DecideNext]_vars

\* C12: a level with on_hand >= 0 and available >= 0 is never corrected,
\* whatever committed, incoming and the raise flag are.
C12_NonNegativeNeverFixed ==
    (fn.op = "decide" /\ fn.map.on_hand >= 0 /\ fn.map.available >= 0)
    => ~fn.fix

C12_Witness ==
    /\ fn.op = "decide"
    /\ fn.build = "srvA"
    /\ fn.map = [on_hand |-> 0, available |-> 0, committed |-> 5, incoming |-> 0]
    /\ fn.raise
    /\ ~fn.fix

C14_RaiseToCommitted ==
    (/\ fn.op = "decide"
     /\ fn.build \in TargetBuilds
     /\ fn.map.on_hand >= 0
     /\ fn.map.available < 0
     /\ fn.map.committed > 0
     /\ fn.map.incoming = 0
     /\ fn.raise)
    => (fn.fix /\ fn.target = fn.map.committed)

negativeAvailable(map) == map.available < 0

\* the three-step rule: a correction is required
RuleFix(map, raise) ==
    \/ map.on_hand < 0
    \/ (map.available < 0 /\ map.incoming = 0 /\ (map.committed = 0 \/ raise))

\* the three-step rule: the target of a correction
RuleTarget(map, raise) == IF raise /\ map.committed > 0 THEN map.committed ELSE 0

\* C22: for every snapshot and both values of the raise flag the decision
\* of the code is that of the three-step rule (fix iff on_hand < 0, or
\* available < 0 and incoming = 0 and (committed = 0 or raise); target =
\* committed if raise and committed > 0, else 0), and every copy of the
\* rule in the code gives the same decision.
C22_DecisionIsTheRule ==
    fn.op = "decide"
    => /\ fn.fix = RuleFix(fn.map, fn.raise)
       /\ (fn.fix /\ fn.build \in TargetBuilds) => fn.target = RuleTarget(fn.map, fn.raise)
       /\ \A b \in DecideBuilds : ShouldFixOf(b, fn.map, fn.raise) = fn.fix
       /\ negativeAvailable(fn.map) = fn.fix

----------------------------------------------------------------------------
(* A fix endpoint running applyBatches *)

\* longest list of corrections a scan hands over
MaxCandidates == 401

BATCH == 200

\* the fix endpoints: GET /auto-fix and GET /bulk-fix of the first server
\* of src/server.js, POST /bulk-fix-negatives of the second
FixEndpoints == {"/auto-fix", "/bulk-fix", "/bulk-fix-negatives"}

RevOf(endpoint) == IF endpoint = "/bulk-fix-negatives" THEN "srvB" ELSE "srvA"

\* the k-th correction of a scan: its own item, a target chosen by the scan
Correction(k) ==
    [inventoryItemId |-> k, locationId |-> 1, setOnHandTo |-> IF k % 2 = 0 THEN 0 ELSE 5]

CorrectionsOf(n) == [k \in 1..n |-> Correction(k)]

Min(a, b) == IF a < b THEN a ELSE b

\* a slice that takes one element too many
Slice_oneMore(arr, from, to) == SubSeq(arr, from + 1, Min(to + 1, Len(arr)))

\* Array.prototype.slice(from, to) with 0-based indices
Slice(arr, from, to) == SubSeq(arr, from + 1, Min(to, Len(arr)))

\* quantity: (typeof c.setOnHandTo === 'number') ? c.setOnHandTo : 0 in the
\* first server, always 0 in the second
QuantityOf(rev, c) == IF rev = "srvB" THEN 0 ELSE c.setOnHandTo

\* the input of one inventorySetOnHandQuantities call of applyBatches
BatchInput(rev, reason, batch) ==
    [reason |-> reason,
     setQuantities |-> [j \in 1..Len(batch) |->
                           [inventoryItemId |-> batch[j].inventoryItemId,
                            locationId |-> batch[j].locationId,
                            quantity |-> QuantityOf(rev, batch[j])]]]

ReasonOf(endpoint) ==
    IF endpoint = "/bulk-fix-negatives" THEN "fix-negative-available" ELSE "correction"

\* a handler of a fix endpoint: where it is, its corrections, the loop
\* index i and the results pushed so far
FixTask(at, endpoint, corrections, i, results) ==
    [at |-> at, endpoint |-> endpoint, corrections |-> corrections, i |-> i,
     results |-> results]

\* responses of a fix endpoint
FixReply(status, ok, count, batches) ==
    [status |-> status, ok |-> ok, count |-> count, batches |-> batches]
NothingToFix == FixReply(200, TRUE, 0, 0)
Error500 == FixReply(500, FALSE, 0, 0)

\* res.json({ ok: true, fixedCount: corrections.length, batches: results.length })
FixDone(corrections, results) ==
    FixReply(200, TRUE, Len(corrections), Len(results))

\* how a mutation call settles: data without userErrors, data with
\* userErrors, or a rejection (network error, GraphQL errors)
ChunkOutcomes == {"ok", "userErrors", "throw"}

BatchInit ==
    /\ cfg = [build |-> "none", secret |-> NoSecret, bypass |-> FALSE]
    /\ WebhookAtRest
    /\ fn = NoCall
    /\ srv \in [rev : {"srvA", "srvB"}, hasCreds : BOOLEAN]
    /\ levels = << >>
    /\ bulkOp = [status |-> "none"]
    /\ bulkFile = [exists |-> FALSE]
    /\ calls = << >>
    /\ task = [at |-> "none"]
    /\ reply = [status |-> 0]

\* a fix request arrives; its scan found n corrections
FixRequest(endpoint, n) ==
    /\ task.at = "none"
    /\ reply.status = 0
    /\ RevOf(endpoint) = srv.rev
    /\ IF n = 0
       THEN /\ reply' = NothingToFix
            /\ task' = FixTask("done", endpoint, << >>, 0, << >>)
       ELSE /\ reply' = reply
            /\ task' = FixTask("loop", endpoint, CorrectionsOf(n), 0, << >>)
    /\ UNCHANGED <<webhookVars, fn, srv, levels, bulkOp, bulkFile, calls>>

\* applyBatches: the loop test and, inside the loop, shopifyGraphQL up to
\* its fetch; without credentials shopifyGraphQL throws before any fetch
SendChunk ==
    /\ task.at = "loop"
    /\ IF task.i < Len(task.corrections)
       THEN IF srv.hasCreds
            THEN /\ calls' = Append(calls,
                        BatchInput(srv.rev, ReasonOf(task.endpoint),
                                   Slice(task.corrections, task.i, task.i + BATCH)))
                 /\ task' = [task EXCEPT !.at = "await"]
                 /\ reply' = reply
            ELSE /\ calls' = calls
                 /\ task' = [task EXCEPT !.at = "threw"]
                 /\ reply' = Error500
       ELSE /\ calls' = calls
            /\ task' = [task EXCEPT !.at = "done"]
            /\ reply' = FixDone(task.corrections, task.results)
    /\ UNCHANGED <<webhookVars, fn, srv, levels, bulkOp, bulkFile>>

\* a loop that goes on to the next chunk as soon as the response is in
ChunkSettles_noPacing(outcome) ==
    /\ task.at = "await"
    /\ IF outcome = "throw"
       THEN /\ task' = [task EXCEPT !.at = "threw"]
            /\ reply' = Error500
       ELSE /\ task' = [task EXCEPT !.at = "loop", !.results = Append(@, outcome),
                                    !.i = @ + BATCH]
            /\ reply' = reply
    /\ UNCHANGED <<webhookVars, fn, srv, levels, bulkOp, bulkFile, calls>>

\* the mutation call settles: results.push(...), or the route's catch
ChunkSettles(outcome) ==
    /\ task.at = "await"
    /\ IF outcome = "throw"
       THEN /\ task' = [task EXCEPT !.at = "threw"]
            /\ reply' = Error500
       ELSE /\ task' = [task EXCEPT !.at = "sleep", !.results = Append(@, outcome)]
            /\ reply' = reply
    /\ UNCHANGED <<webhookVars, fn, srv, levels, bulkOp, bulkFile, calls>>

\* the 200 ms timer fires: i += BATCH
Paced ==
    /\ task.at = "sleep"
    /\ task' = [task EXCEPT !.at = "loop", !.i = @ + BATCH]
    /\ UNCHANGED <<webhookVars, fn, srv, levels, bulkOp, bulkFile, calls, reply>>

BatchNext ==
    \/ \E endpoint \in FixEndpoints : \E n \in 0..MaxCandidates : FixRequest(endpoint, n)
    \/ SendChunk
    \/ \E o \in ChunkOutcomes : ChunkSettles(o)
    \/ Paced

BatchSpec == BatchInit /\ [][BatchNext]_vars

\* the entries of all calls so far, in the order sent
RECURSIVE Sent(_)
Sent(cs) ==
    IF cs = << >> THEN << >>
    ELSE Sent(SubSeq(cs, 1, Len(cs) - 1)) \o cs[Len(cs)].setQuantities

CeilDiv(n, b) == (n + b - 1) \div b

\* C16: when applyBatches returns (no call threw) for N corrections it has
\* made exactly ceil(N / 200) mutation calls, each with at most 200
\* entries, and the entries of the calls taken in order are the corrections
\* in list order, each exactly once.
C16_BatchPartition ==
    (task.at = "done" /\ Len(task.corrections) > 0)
    => /\ Len(calls) = CeilDiv(Len(task.corrections), BATCH)
       /\ \A j \in 1..Len(calls) : Len(calls[j].setQuantities) <= BATCH
       /\ Len(Sent(calls)) = Len(task.corrections)
       /\ \A k \in 1..Len(task.corrections) :
            /\ Sent(calls)[k].inventoryItemId = task.corrections[k].inventoryItemId
            /\ Sent(calls)[k].locationId = task.corrections[k].locationId

C16_Witness ==
    /\ task.at = "done"
    /\ Len(task.corrections) = MaxCandidates
    /\ Len(calls) = CeilDiv(MaxCandidates, BATCH)
    /\ Len(calls) > 2
    /\ Len(calls[Len(calls)].setQuantities) < BATCH

\* number of corrections in the chunks whose call reported no user error
RECURSIVE AppliedCount(_, _)
AppliedCount(cs, results) ==
    IF results = << >> THEN 0
    ELSE AppliedCount(SubSeq(cs, 1, Len(results) - 1), SubSeq(results, 1, Len(results) - 1))
         + (IF results[Len(results)] = "ok" THEN Len(cs[Len(results)].setQuantities) ELSE 0)

\* C17: once a chunk failed (user errors, or a call that threw) the
\* response of the fix endpoint is not ok = true with a count that includes
\* corrections of a failed chunk.
C17_PartialFailureReported ==
    (/\ task.at \in {"done", "threw"}
     /\ Len(calls) > 0
     /\ (task.at = "threw" \/ \E j \in 1..Len(task.results) : task.results[j] = "userErrors"))
    => ~(reply.ok /\ reply.count > AppliedCount(calls, task.results))

\* the chunk of the corrections that call number n carries
ChunkOf(n) == Slice(task.corrections, (n - 1) * BATCH, n * BATCH)

\* C23: within one run of applyBatches a mutation is sent only from the
\* loop head, one at a time, for the chunk that follows the chunks already
\* answered; a handler that awaits a response leaves that state only into
\* the pacing delay (or by throwing), and only the end of the pacing delay
\* brings it back to the loop head.
C23_SequentialAndPaced ==
    [][/\ Len(calls') > Len(calls)
          => /\ Len(calls') = Len(calls) + 1
             /\ task.at = "loop"
             /\ Len(task.results) = Len(calls)
             /\ task.i = BATCH * Len(calls)
             /\ calls'[Len(calls')].setQuantities =
                    BatchInput(srv.rev, "r", ChunkOf(Len(calls) + 1)).setQuantities
       /\ task.at = "await" => (task'.at \in {"sleep", "threw"} /\ calls' = calls)
       /\ task.at = "sleep" => (task'.at = "loop" /\ calls' = calls)
       /\ (task'.at = "loop" /\ task.at \notin {"loop", "none"}) => task.at = "sleep"]_vars

\* the third chunk is out, after two responses and two pacing delays
C23_Witness ==
    /\ task.at = "await"
    /\ Len(calls) = 3
    /\ Len(task.results) = 2
    /\ task.i = 2 * BATCH

\* C24: a failing chunk does not abort the batch: when the handler has
\* finished after sending at least one chunk, every chunk of the list has
\* been sent and the result list holds one entry per chunk (its outcome,
\* with its errors if it had any).
C24_ErrorsDoNotAbort ==
    (task.at \in {"done", "threw"} /\ Len(calls) > 0)
    => /\ Len(calls) = CeilDiv(Len(task.corrections), BATCH)
       /\ Len(task.results) = Len(calls)

----------------------------------------------------------------------------
(* A deployment: the webhook server, or an admin server running a fix *)

ServiceInit == Init \/ BatchInit

\* the webhook server runs where a build is deployed, the fix endpoint
\* where an admin server is
WebhookRuns == cfg.build \in Builds
AdminRuns == srv.rev # "none"

ServiceNext ==
    \/ WebhookRuns /\ \E body \in Bodies : \E sig \in SigHeaders(cfg.secret, body) :
                          Webhook(body, sig)
    \/ WebhookRuns /\ \E p \in pending : RemoteAnswer(p)
    \/ WebhookRuns /\ \E p \in pending : \E o \in Outcomes : Resume(p, o)
    \/ WebhookRuns /\ \E step \in TickSteps : Tick(step)
    \/ AdminRuns /\ \E endpoint \in FixEndpoints : \E n \in 0..MaxCandidates :
                        FixRequest(endpoint, n)
    \/ AdminRuns /\ SendChunk
    \/ AdminRuns /\ \E o \in ChunkOutcomes : ChunkSettles(o)
    \/ AdminRuns /\ Paced

ServiceSpec == ServiceInit /\ [][ServiceNext]_vars

\* C25: nothing is sent twice: the webhook handlers have sent at most one
\* mutation per request received, and the calls of applyBatches are the
\* chunks of the list, call k carrying chunk k, whether the earlier calls
\* succeeded, returned user errors or threw.
C25_NoRetry ==
    /\ Len(mutations) <= nReq
    /\ task.at # "none"
       => /\ Len(calls) <= CeilDiv(Len(task.corrections), BATCH)
          /\ \A k \in 1..Len(calls) :
                calls[k].setQuantities =
                    BatchInput(srv.rev, "r", ChunkOf(k)).setQuantities

\* the first chunk came back with user errors, the second call threw, and
\* the handler has ended with exactly these two calls made
C25_Witness ==
    /\ task.at = "threw"
    /\ task.results = << "userErrors" >>
    /\ Len(calls) = 2
    /\ Len(task.corrections) > 2 * BATCH

----------------------------------------------------------------------------
(* Bulk job control, the export file and the dry-run endpoints *)

\* number of admin requests in one behaviour
MaxAdminReq == 3

\* the two servers of src/server.js: "srvA" is lines 1-615, "srvB" is
\* lines 617-1057
AdminRevs == {"srvA", "srvB"}

\* locations of the one tracked variant of the catalog
LevelIds == {1, 2}

\* a healthy level, a negative one, and one that is short of its commitments
Healthy == [on_hand |-> 5, available |-> 5, committed |-> 0, incoming |-> 0]
Negative == [on_hand |-> -3, available |-> -3, committed |-> 0, incoming |-> 0]
Overcommitted == [on_hand |-> 2, available |-> -3, committed |-> 5, incoming |-> 0]
LevelStates == {Healthy, Negative, Overcommitted}

\* an outbound GraphQL call: a query, or a mutation with its argument
Query(name) == [op |-> "query", name |-> name, arg |-> << >>]
Mutation(name, arg) == [op |-> "mutation", name |-> name, arg |-> arg]

\* currentBulkOperation at the remote: none, or a job with its status and,
\* once COMPLETED, the levels it exported
BulkOp(status, id, content) == [status |-> status, id |-> id, content |-> content]
NoBulkOp == BulkOp("none", 0, << >>)

NoFile == [exists |-> FALSE, content |-> << >>]
File(content) == [exists |-> TRUE, content |-> content]

\* an export left in /tmp by an earlier download
PriorExport == File([l \in LevelIds |-> Negative])

\* at: "none" or "cancel" (POST /bulk-cancel suspended on its mutation);
\* served: requests handled so far; id: the job the cancel names
AdminTask(at, served, id) == [at |-> at, served |-> served, id |-> id]

AdminReply(status, ok, tag, count) ==
    [status |-> status, ok |-> ok, tag |-> tag, count |-> count]

\* the level after inventorySetOnHandQuantities set its on_hand
SetOnHandAt(level, quantity) ==
    [level EXCEPT !.on_hand = quantity,
                  !.available = level.available + (quantity - level.on_hand)]

\* the remote inventory after it received the given calls
RECURSIVE RemoteApply(_, _)
RemoteApply(lv, cs) ==
    IF cs = << >> THEN lv
    ELSE LET c == cs[1]
             after ==
                 IF c.op = "mutation" /\ c.name = "inventorySetOnHandQuantities"
                 THEN [l \in DOMAIN lv |->
                          IF \E j \in 1..Len(c.arg) : c.arg[j].locationId = l
                          THEN SetOnHandAt(lv[l],
                                   c.arg[CHOOSE j \in 1..Len(c.arg) : c.arg[j].locationId = l].quantity)
                          ELSE lv[l]]
                 ELSE lv
         IN  RemoteApply(after, Tail(cs))

\* the levels of a snapshot that the first server would correct, and the
\* setQuantities it builds for them
Fixable(lv, raise) == {l \in DOMAIN lv : shouldFix(lv[l], raise)}

RECURSIVE SetQuantitiesOf(_, _, _)
SetQuantitiesOf(lv, ls, raise) ==
    IF ls = {} THEN << >>
    ELSE LET l == CHOOSE x \in ls : \A y \in ls : x <= y
         IN  << [inventoryItemId |-> 1, locationId |-> l, quantity |-> Target(lv[l], raise)] >>
             \o SetQuantitiesOf(lv, ls \ {l}, raise)

\* the second server looks at available only
NegativeAvailable(lv) == {l \in DOMAIN lv : lv[l].available < 0}

\* statuses of the job that POST /bulk-cancel cancels
Cancellable(rev) == IF rev = "srvA" THEN {"RUNNING"} ELSE {"RUNNING", "CREATED"}

AdminInit ==
    /\ cfg = [build |-> "none", secret |-> NoSecret, bypass |-> FALSE]
    /\ WebhookAtRest
    /\ fn = NoCall
    /\ srv \in [rev : AdminRevs, hasCreds : BOOLEAN]
    /\ levels \in [LevelIds -> LevelStates]
    /\ bulkOp = NoBulkOp
    /\ bulkFile \in {NoFile, PriorExport}
    /\ calls = << >>
    /\ task = AdminTask("none", 0, 0)
    /\ reply = AdminReply(0, FALSE, "none", 0)

\* a request can be taken
Ready == task.at = "none" /\ task.served < MaxAdminReq
Served == [task EXCEPT !.served = @ + 1]

\* a handler whose first shopifyGraphQL throws for lack of credentials
NoCreds(tag) ==
    /\ ~srv.hasCreds
    /\ reply' = AdminReply(500, FALSE, tag, 0)
    /\ task' = Served
    /\ UNCHANGED <<levels, bulkOp, bulkFile, calls>>

\* POST /bulk-start: the remote creates a job unless one is under way
BulkStart ==
    /\ Ready
    /\ \/ NoCreds("bulk-start")
       \/ /\ srv.hasCreds
          /\ calls' = Append(calls, Mutation("bulkOperationRunQuery", << >>))
          /\ task' = Served
          /\ IF bulkOp.status \in {"CREATED", "RUNNING", "CANCELING"}
             THEN /\ bulkOp' = bulkOp
                  /\ reply' = AdminReply(400, FALSE, "userErrors", 0)
             ELSE /\ bulkOp' = BulkOp("CREATED", bulkOp.id + 1, << >>)
                  /\ reply' = AdminReply(200, TRUE, "started", 0)
          /\ UNCHANGED <<levels, bulkFile>>
    /\ UNCHANGED <<webhookVars, fn, srv>>

\* the remote job moves on
RemoteProgress ==
    /\ \/ bulkOp.status = "CREATED" /\ bulkOp' = [bulkOp EXCEPT !.status = "RUNNING"]
       \/ bulkOp.status = "RUNNING"
          /\ bulkOp' = [bulkOp EXCEPT !.status = "COMPLETED", !.content = levels]
       \/ bulkOp.status = "RUNNING" /\ bulkOp' = [bulkOp EXCEPT !.status = "FAILED"]
       \/ bulkOp.status = "CANCELING" /\ bulkOp' = [bulkOp EXCEPT !.status = "CANCELED"]
    /\ UNCHANGED <<webhookVars, fn, srv, levels, bulkFile, calls, task, reply>>

\* POST /bulk-cancel up to its answer or to the cancel mutation
BulkCancel ==
    /\ Ready
    /\ \/ NoCreds("bulk-cancel")
       \/ /\ srv.hasCreds
          /\ IF bulkOp.status = "none" \/ bulkOp.status \notin Cancellable(srv.rev)
             THEN /\ reply' = AdminReply(200, TRUE, "nothing to cancel", 0)
                  /\ task' = Served
                  /\ calls' = Append(calls, Query("currentBulkOperation"))
             ELSE /\ reply' = reply
                  /\ task' = AdminTask("cancel", task.served, bulkOp.id)
                  /\ calls' = calls \o << Query("currentBulkOperation"),
                                          Mutation("bulkOperationCancel", bulkOp.id) >>
          /\ UNCHANGED <<levels, bulkOp, bulkFile>>
    /\ UNCHANGED <<webhookVars, fn, srv>>

\* the cancel mutation settles and POST /bulk-cancel answers
BulkCancelSettles(threw) ==
    /\ task.at = "cancel"
    /\ task' = AdminTask("none", task.served + 1, 0)
    /\ IF threw
       THEN /\ reply' = AdminReply(500, FALSE, "bulk-cancel", 0)
            /\ bulkOp' = bulkOp
       ELSE IF bulkOp.status \in {"CREATED", "RUNNING"}
       THEN /\ reply' = AdminReply(200, TRUE, "cancelled", task.id)
            /\ bulkOp' = [bulkOp EXCEPT !.status = "CANCELING"]
       ELSE /\ reply' = AdminReply(400, FALSE, "userErrors", 0)
            /\ bulkOp' = bulkOp
    /\ UNCHANGED <<webhookVars, fn, srv, levels, bulkFile, calls>>

\* GET /bulk-download: writes the export of a COMPLETED job to BULK_FILE
BulkDownload(fetched) ==
    /\ Ready
    /\ \/ NoCreds("bulk-download")
       \/ /\ srv.hasCreds
          /\ calls' = Append(calls, Query("currentBulkOperation"))
          /\ task' = Served
          /\ IF bulkOp.status # "COMPLETED"
             THEN /\ reply' = AdminReply(400, FALSE, "not completed", 0)
                  /\ bulkFile' = bulkFile
             ELSE IF fetched
             THEN /\ reply' = AdminReply(200, TRUE, "saved", 0)
                  /\ bulkFile' = File(bulkOp.content)
             ELSE /\ reply' = AdminReply(500, FALSE, "bulk-download", 0)
                  /\ bulkFile' = bulkFile
          /\ UNCHANGED <<levels, bulkOp>>
    /\ UNCHANGED <<webhookVars, fn, srv>>

\* ?variantId= / ?variantGid=: not given, the variant of the catalog, or an
\* id the remote does not know
VariantParams == {"missing", "known", "unknown"}

\* the levels a dry run would correct: shouldFix in the first server,
\* available < 0 in the second
ToFix(rev, lv, raise) ==
    IF rev = "srvA" THEN Fixable(lv, raise) ELSE NegativeAvailable(lv)

\* a dry run that also applies what it found
VariantDryCalls_applies(lv, raise) ==
    << Query("VariantWithLevels"),
       Mutation("inventorySetOnHandQuantities", SetQuantitiesOf(lv, Fixable(lv, raise), raise)) >>

\* the outbound calls of GET /variant-dry for a given variant
VariantDryCalls(lv, raise) == << Query("VariantWithLevels") >>

\* the outbound calls of GET /auto-dry: the page of products, then the
\* levels of the variant
AutoDryCalls(lv, raise) == << Query("ProductsVariantIds"), Query("VariantWithLevels") >>

\* GET /variant-dry (both servers)
VariantDry(v, raise) ==
    /\ Ready
    /\ task' = Served
    /\ IF v = "missing"
       THEN /\ reply' = AdminReply(400, FALSE, "dry-run", 0)
            /\ UNCHANGED <<levels, calls>>
       ELSE IF ~srv.hasCreds
       THEN /\ reply' = AdminReply(500, FALSE, "dry-run", 0)
            /\ UNCHANGED <<levels, calls>>
       ELSE /\ calls' = calls \o VariantDryCalls(levels, raise)
            /\ levels' = RemoteApply(levels, VariantDryCalls(levels, raise))
            /\ reply' = IF v = "unknown"
                        THEN AdminReply(404, FALSE, "dry-run", 0)
                        ELSE AdminReply(200, TRUE, "dry-run",
                                        Cardinality(ToFix(srv.rev, levels, raise)))
    /\ UNCHANGED <<webhookVars, fn, srv, bulkOp, bulkFile>>

\* GET /auto-dry (first server)
AutoDry(raise) ==
    /\ Ready
    /\ srv.rev = "srvA"
    /\ task' = Served
    /\ IF ~srv.hasCreds
       THEN /\ reply' = AdminReply(500, FALSE, "dry-run", 0)
            /\ UNCHANGED <<levels, calls>>
       ELSE /\ calls' = calls \o AutoDryCalls(levels, raise)
            /\ levels' = RemoteApply(levels, AutoDryCalls(levels, raise))
            /\ reply' = AdminReply(200, TRUE, "dry-run", Cardinality(Fixable(levels, raise)))
    /\ UNCHANGED <<webhookVars, fn, srv, bulkOp, bulkFile>>

\* GET /bulk-dry (first server) and GET /bulk-plan-negatives (second): read
\* BULK_FILE, call nothing
BulkDry(raise) ==
    /\ Ready
    /\ task' = Served
    /\ reply' = IF ~bulkFile.exists
                THEN AdminReply(400, FALSE, "dry-run", 0)
                ELSE AdminReply(200, TRUE, "dry-run",
                                Cardinality(ToFix(srv.rev, bulkFile.content, raise)))
    /\ UNCHANGED <<webhookVars, fn, srv, levels, bulkOp, bulkFile, calls>>

\* GET /variant-fix (first server): one mutation for the fixable levels
VariantFix(raise, outcome) ==
    /\ Ready
    /\ srv.rev = "srvA"
    /\ task' = Served
    /\ IF ~srv.hasCreds
       THEN /\ reply' = AdminReply(500, FALSE, "fix", 0)
            /\ UNCHANGED <<levels, calls>>
       ELSE IF Fixable(levels, raise) = {}
       THEN /\ reply' = AdminReply(200, TRUE, "fix", 0)
            /\ calls' = Append(calls, Query("VariantWithLevels"))
            /\ levels' = levels
       ELSE LET sent == << Query("VariantWithLevels"),
                          Mutation("inventorySetOnHandQuantities",
                                   SetQuantitiesOf(levels, Fixable(levels, raise), raise)) >>
            IN  /\ calls' = calls \o sent
                /\ levels' = IF outcome = "ok" THEN RemoteApply(levels, sent) ELSE levels
                /\ reply' = CASE outcome = "ok" ->
                                   AdminReply(200, TRUE, "fix", Cardinality(Fixable(levels, raise)))
                               [] outcome = "userErrors" -> AdminReply(400, FALSE, "fix", 0)
                               [] OTHER -> AdminReply(500, FALSE, "fix", 0)
    /\ UNCHANGED <<webhookVars, fn, srv, bulkOp, bulkFile>>

\* GET /bulk-fix (first server) and POST /bulk-fix-negatives (second): the
\* corrections are computed from BULK_FILE and handed to applyBatches; the
\* answer is ok whatever user errors the call reported
BulkFix(raise, outcome) ==
    /\ Ready
    /\ task' = Served
    /\ IF ~bulkFile.exists
       THEN /\ reply' = AdminReply(400, FALSE, "fix", 0)
            /\ UNCHANGED <<levels, calls>>
       ELSE IF ToFix(srv.rev, bulkFile.content, raise) = {}
       THEN /\ reply' = AdminReply(200, TRUE, "fix", 0)
            /\ UNCHANGED <<levels, calls>>
       ELSE IF ~srv.hasCreds
       THEN /\ reply' = AdminReply(500, FALSE, "fix", 0)
            /\ UNCHANGED <<levels, calls>>
       ELSE LET toFix == ToFix(srv.rev, bulkFile.content, raise)
                sent == << Mutation("inventorySetOnHandQuantities",
                                    IF srv.rev = "srvA"
                                    THEN SetQuantitiesOf(bulkFile.content, toFix, raise)
                                    ELSE SetQuantitiesOf(bulkFile.content, toFix, FALSE)) >>
            IN  /\ calls' = calls \o sent
                /\ levels' = IF outcome = "ok" THEN RemoteApply(levels, sent) ELSE levels
                /\ reply' = IF outcome = "throw"
                            THEN AdminReply(500, FALSE, "fix", 0)
                            ELSE AdminReply(200, TRUE, "fix", Cardinality(toFix))
    /\ UNCHANGED <<webhookVars, fn, srv, bulkOp, bulkFile>>

\* the quantities of a level change at the remote: a sale, a restock, a
\* correction made by someone else
RemoteUpdate(l, st) ==
    /\ levels[l] # st
    /\ levels' = [levels EXCEPT ![l] = st]
    /\ UNCHANGED <<webhookVars, fn, srv, bulkOp, bulkFile, calls, task, reply>>

\* any dry-run request
DryRun ==
    \/ \E v \in VariantParams : \E raise \in BOOLEAN : VariantDry(v, raise)
    \/ \E raise \in BOOLEAN : AutoDry(raise)
    \/ \E raise \in BOOLEAN : BulkDry(raise)

AdminNext ==
    \/ BulkStart
    \/ RemoteProgress
    \/ BulkCancel
    \/ \E threw \in BOOLEAN : BulkCancelSettles(threw)
    \/ \E fetched \in BOOLEAN : BulkDownload(fetched)
    \/ \E v \in VariantParams : \E raise \in BOOLEAN : VariantDry(v, raise)
    \/ \E raise \in BOOLEAN : AutoDry(raise)
    \/ \E raise \in BOOLEAN : BulkDry(raise)
    \/ \E raise \in BOOLEAN : \E o \in ChunkOutcomes : VariantFix(raise, o)

AdminSpec == AdminInit /\ [][AdminNext]_vars

\* the calls made in a step
NewCalls == SubSeq(calls', Len(calls) + 1, Len(calls'))

IsCancel(c) == c.op = "mutation" /\ c.name = "bulkOperationCancel"
IsSetOnHand(c) == c.op = "mutation" /\ c.name = "inventorySetOnHandQuantities"

\* C18: with the remote reachable, POST /bulk-cancel sends a cancel mutation
\* exactly when the current job is RUNNING or CREATED; with no job or a job
\* in another state it answers ok = true and sends no mutation; and no step
\* of it changes the export file.
C18_CancelOnlyWhenActive ==
    [][/\ (BulkCancel /\ srv.hasCreds)
          => /\ (\E k \in 1..Len(NewCalls) : IsCancel(NewCalls[k]))
                <=> bulkOp.status \in {"RUNNING", "CREATED"}
             /\ bulkOp.status \notin {"RUNNING", "CREATED"}
                => /\ reply'.ok
                   /\ \A k \in 1..Len(NewCalls) : NewCalls[k].op # "mutation"
             /\ bulkFile' = bulkFile
       /\ (\E threw \in BOOLEAN : BulkCancelSettles(threw)) => bulkFile' = bulkFile]_vars

\* C19: a dry-run request (/variant-dry, /auto-dry, /bulk-dry,
\* /bulk-plan-negatives) sends no set-on-hand mutation and leaves the
\* remote quantities as they were.
C19_DryRunChangesNothing ==
    [][DryRun => /\ \A k \in 1..Len(NewCalls) : ~IsSetOnHand(NewCalls[k])
                 /\ levels' = levels]_vars

C19_Witness ==
    /\ reply.tag = "dry-run"
    /\ reply.status = 200
    /\ reply.count = 2
    /\ task.served = MaxAdminReq
    /\ Len(calls) >= MaxAdminReq
    /\ \A k \in 1..Len(calls) : calls[k].op = "query"
    /\ \A l \in LevelIds : levels[l] = Negative

----------------------------------------------------------------------------
(* The bulk-file fix against a remote inventory that moves *)

BulkFixNext ==
    \/ BulkStart
    \/ RemoteProgress
    \/ \E fetched \in BOOLEAN : BulkDownload(fetched)
    \/ \E raise \in BOOLEAN : \E o \in ChunkOutcomes : BulkFix(raise, o)
    \/ \E l \in LevelIds : \E st \in LevelStates : RemoteUpdate(l, st)

BulkFixSpec == AdminInit /\ [][BulkFixNext]_vars

\* some copy of the rule corrects the level: shouldFix with either flag, or
\* the available < 0 of the second server
Warranted(level) ==
    \/ \E raise \in BOOLEAN : shouldFix(level, raise)
    \/ negativeAvailable(level)

\* C26: every entry of a set-on-hand mutation names a level whose
\* quantities at the remote, at the time the mutation is sent, call for a
\* correction, whatever happened to them since the candidate was observed.
C26_CorrectionsFromCurrentSnapshot ==
    [][\A k \in 1..Len(NewCalls) :
          IsSetOnHand(NewCalls[k])
          => \A j \in 1..Len(NewCalls[k].arg) :
                Warranted(levels[NewCalls[k].arg[j].locationId])]_vars

----------------------------------------------------------------------------
(* A correction applied again *)

\* what another client does to the level between the two applications:
\* nothing, a sale (one unit committed), a restock (ten units received)
OtherUpdates == {"none", "sale", "restock"}

Between(level, u) ==
    CASE u = "sale" -> [level EXCEPT !.committed = @ + 1, !.available = @ - 1]
      [] u = "restock" -> [level EXCEPT !.on_hand = @ + 10, !.available = @ + 10]
      [] OTHER -> level

\* quantities the code sets: 0, or the committed of the snapshot it saw
SetQuantities == {0, 5}

ReapplyInit ==
    /\ cfg = [build |-> "none", secret |-> NoSecret, bypass |-> FALSE]
    /\ WebhookAtRest
    /\ fn \in [op : {"correction"}, level : Snapshots, quantity : SetQuantities,
                between : OtherUpdates]
    /\ AdminAtRest

\* the remote receives the same setQuantities entry once, or once more after
\* the other client's update
Reapply ==
    /\ fn.op = "correction"
    /\ LET first == SetOnHandAt(fn.level, fn.quantity)
           once == Between(first, fn.between)
       IN  fn' = [op |-> "applied", level |-> fn.level, quantity |-> fn.quantity,
                  between |-> fn.between, once |-> once,
                  twice |-> SetOnHandAt(once, fn.quantity)]
    /\ UNCHANGED <<webhookVars, adminVars>>

ReapplyNext == Reapply

ReapplySpec == ReapplyInit /\ [][ReapplyNext]_vars

\* C27: a correction applied a second time (a replay after the TTL, after a
\* restart, from a second instance) leaves the remote level as the first
\* application and the updates made since left it.
C27_CorrectionIdempotent ==
    fn.op = "applied" => fn.twice = fn.once

----------------------------------------------------------------------------
(* The paginated scan and its window of variant fetches *)

\* number of variants in the catalog
MaxVariants == 4

\* ?c= of /auto-dry and /auto-fix: Math.max(1, Number(concurrency) || 5)
Concurrencies == {1, 2, 3}

\* revisions of scanAllNegatives: src/server.js:189-250 and
\* src/unnamed/part_003:105-174 (the same loop)
ScanRevs == {"srvA", "p003"}

\* at: "loop" (the scan is between two variants, or awaits the next page),
\* "race" (it awaits Promise.race(queue)), "drain" (it awaits
\* Promise.allSettled(queue)), "done"; queue: the promises in the queue;
\* inflight: the fetches started and not yet settled; newest: the promise
\* pushed last, whose p.finally(...) is registered only after the race
ScanTask(at, c, n, launched, queue, inflight, newest) ==
    [at |-> at, c |-> c, n |-> n, launched |-> launched, queue |-> queue,
     inflight |-> inflight, newest |-> newest]

\* for (i = queue.length - 1; i >= 0; i--) if (queue[i].settled) queue.splice(i, 1):
\* a promise carries the flag once it has settled with its finally callback
\* registered
Cleaned(queue, flagged) == SelectSeq(queue, LAMBDA q : q \notin flagged)

ScanInit ==
    /\ cfg = [build |-> "none", secret |-> NoSecret, bypass |-> FALSE]
    /\ WebhookAtRest
    /\ fn = NoCall
    /\ srv \in [rev : ScanRevs, hasCreds : {TRUE}]
    /\ levels = << >>
    /\ bulkOp = [status |-> "none"]
    /\ bulkFile = [exists |-> FALSE]
    /\ calls = << >>
    /\ task \in {ScanTask("loop", c, n, 0, << >>, {}, 0) :
                    c \in Concurrencies, n \in 1..MaxVariants}
    /\ reply = [status |-> 0]

\* one turn of the loop over the variants: processVariant starts its fetch,
\* the promise is pushed, and with the queue full the scan awaits the race;
\* a race over a queue that holds a settled promise returns at once
LaunchVariant ==
    /\ task.at = "loop"
    /\ task.launched < task.n
    /\ LET k == task.launched + 1
           queue == Append(task.queue, k)
           inflight == task.inflight \cup {k}
           settled == {q \in 1..k : q \notin inflight}
       IN  task' =
             IF Len(queue) < task.c
             THEN ScanTask("loop", task.c, task.n, k, queue, inflight, k)
             ELSE IF \E i \in 1..Len(queue) : queue[i] \in settled
             THEN ScanTask("loop", task.c, task.n, k, Cleaned(queue, settled), inflight, k)
             ELSE ScanTask("race", task.c, task.n, k, queue, inflight, k)
    /\ UNCHANGED <<webhookVars, fn, srv, levels, bulkOp, bulkFile, calls, reply>>

\* a fetch settles; a scan that awaits the race goes on: it removes the
\* promises that carry the flag (the newest does not yet) and then
\* registers the finally callback of the newest
FetchSettles(k) ==
    /\ k \in task.inflight
    /\ task' =
         IF task.at = "race"
         THEN [task EXCEPT !.at = "loop",
                           !.inflight = @ \ {k},
                           !.queue = Cleaned(@, {k} \ {task.newest})]
         ELSE [task EXCEPT !.inflight = @ \ {k}]
    /\ UNCHANGED <<webhookVars, fn, srv, levels, bulkOp, bulkFile, calls, reply>>

\* the loop is over: await Promise.allSettled(queue)
ScanDrains ==
    /\ task.at = "loop"
    /\ task.launched = task.n
    /\ task' = [task EXCEPT !.at = IF task.inflight = {} THEN "done" ELSE "drain"]
    /\ UNCHANGED <<webhookVars, fn, srv, levels, bulkOp, bulkFile, calls, reply>>

ScanReturns ==
    /\ task.at = "drain"
    /\ task.inflight = {}
    /\ task' = [task EXCEPT !.at = "done"]
    /\ UNCHANGED <<webhookVars, fn, srv, levels, bulkOp, bulkFile, calls, reply>>

ScanNext ==
    \/ LaunchVariant
    \/ \E k \in 1..MaxVariants : FetchSettles(k)
    \/ ScanDrains
    \/ ScanReturns

ScanSpec == ScanInit /\ [][ScanNext]_vars

\* C28: during a scan with concurrency window C no more than C variant
\* fetches are in flight, in whatever order the fetches settle.
C28_WindowBounded ==
    Cardinality(task.inflight) <= task.c

----------------------------------------------------------------------------
(* The pages of the scan, the outcomes of its fetches and its result *)

\* most pages of the catalog
MaxCatalogPages == 2

\* variants on one page (the products of a page, flattened)
PageSizes == 1..2

\* the variants of the largest catalog, numbered in the order of their pages
CatalogVariants == 1..(MaxCatalogPages * Cardinality(PageSizes))

\* a catalog: the number of variants on each of its pages
Catalogs ==
    UNION {[1..n -> PageSizes] : n \in 1..MaxCatalogPages}

\* ?pages= as the route reads it: req.query.pages ? Number(...) : null.
\* given: the parameter is present and not empty; n: its number (0 when
\* absent)
PageLimits ==
    {[given |-> FALSE, n |-> 0]} \cup {[given |-> TRUE, n |-> n] : n \in 0..MaxCatalogPages}

\* ?c= of the request: a window of two has both cases of the race, won by
\* the promise pushed last or by an older one
Windows == {2}

\* what a settled fetch found: a level to correct, none, or the fetch failed
\* (shopifyGraphQL threw, caught by .catch(() => {}))
FetchOutcomes == {"negative", "healthy", "failed"}

ScanRoutes == {"auto-dry", "auto-fix"}

\* at: "loop" (head of the while loop or between two variants), "page"
\* (awaiting the page query), "race", "drain", "done" (the route has the
\* list), "apply" (/auto-fix goes on to applyBatches), "failed"; pages: the
\* counter `pages`; hasNext: the variable of that name; todo: variants of the
\* current page not yet started; outcome[k]: "pending" or what fetch k
\* found; corrections: the array of that name, one entry per candidate
PagedScan(route, limit, c, catalog) ==
    [at |-> "loop", route |-> route, limit |-> limit, c |-> c,
     catalog |-> catalog, pages |-> 0, hasNext |-> TRUE, todo |-> 0,
     queue |-> << >>, newest |-> 0, outcome |-> << >>,
     corrections |-> << >>]

\* the fetches started and not settled
InFlight(t) == {k \in 1..Len(t.outcome) : t.outcome[k] = "pending"}

PagedScanInit ==
    /\ cfg = [build |-> "none", secret |-> NoSecret, bypass |-> FALSE]
    /\ WebhookAtRest
    /\ fn = NoCall
    /\ srv \in [rev : {"srvA"}, hasCreds : BOOLEAN]
    /\ levels = << >>
    /\ bulkOp = [status |-> "none"]
    /\ bulkFile = [exists |-> FALSE]
    /\ calls = << >>
    /\ task \in {PagedScan(r, l, c, cat) :
                    r \in ScanRoutes, l \in PageLimits, c \in Windows,
                    cat \in Catalogs}
    /\ reply = AdminReply(0, FALSE, "none", 0)

\* if (maxPages && pages >= maxPages) break: null, 0 and NaN do not limit
LimitReached(t) == t.limit.n # 0 /\ t.pages >= t.limit.n

\* the head of the while loop: pages++ and the page query is sent; without
\* credentials shopifyGraphQL throws before any call and the route answers
\* 500
PageQuery ==
    /\ task.at = "loop"
    /\ task.todo = 0
    /\ task.hasNext
    /\ ~LimitReached(task)
    /\ IF srv.hasCreds
       THEN /\ task' = [task EXCEPT !.at = "page", !.pages = @ + 1]
            /\ calls' = Append(calls, Query("ProductsVariantIds"))
            /\ reply' = reply
       ELSE /\ task' = [task EXCEPT !.at = "failed", !.pages = @ + 1]
            /\ calls' = calls
            /\ reply' = AdminReply(500, FALSE, task.route, 0)
    /\ UNCHANGED <<webhookVars, fn, srv, levels, bulkOp, bulkFile>>

\* the page query settles: its edges and pageInfo, or it throws (GraphQL
\* errors, rejected fetch), which the route answers with 500
PageArrives(outcome) ==
    /\ task.at = "page"
    /\ IF outcome = "ok"
       THEN /\ task' = [task EXCEPT !.at = "loop",
                                    !.hasNext = task.pages < Len(task.catalog),
                                    !.todo = task.catalog[task.pages]]
            /\ reply' = reply
       ELSE /\ task' = [task EXCEPT !.at = "failed"]
            /\ reply' = AdminReply(500, FALSE, task.route, 0)
    /\ UNCHANGED <<webhookVars, fn, srv, levels, bulkOp, bulkFile, calls>>

\* one turn of the loop over the variants of the page
StartFetch ==
    /\ task.at = "loop"
    /\ task.todo > 0
    /\ LET k == Len(task.outcome) + 1
           queue == Append(task.queue, k)
           settled == {q \in 1..(k - 1) : task.outcome[q] # "pending"}
           started == [task EXCEPT !.todo = @ - 1, !.newest = k,
                                   !.outcome = Append(@, "pending")]
       IN  task' =
             IF Len(queue) < task.c
             THEN [started EXCEPT !.queue = queue]
             ELSE IF \E i \in 1..Len(queue) : queue[i] \in settled
             THEN [started EXCEPT !.queue = Cleaned(queue, settled)]
             ELSE [started EXCEPT !.queue = queue, !.at = "race"]
    /\ calls' = Append(calls, Query("VariantWithLevels"))
    /\ UNCHANGED <<webhookVars, fn, srv, levels, bulkOp, bulkFile, reply>>

\* a fetch whose failure is not caught: the rejection ends the scan
FetchArrives_noCatch(k, outcome) ==
    /\ k \in InFlight(task)
    /\ task' =
         LET settled == [task EXCEPT !.outcome[k] = outcome,
                                     !.corrections =
                                         IF outcome = "negative" THEN Append(@, k) ELSE @]
         IN  IF outcome = "failed" /\ task.at \in {"race", "drain"}
             THEN [settled EXCEPT !.at = "failed"]
             ELSE IF task.at = "race"
             THEN [settled EXCEPT !.at = "loop",
                                  !.queue = Cleaned(@, {k} \ {task.newest})]
             ELSE settled
    /\ reply' = IF outcome = "failed" /\ task.at \in {"race", "drain"}
                THEN AdminReply(500, FALSE, task.route, 0)
                ELSE reply
    /\ UNCHANGED <<webhookVars, fn, srv, levels, bulkOp, bulkFile, calls>>

\* a fetch settles: processVariant pushes its candidate, or its failure is
\* swallowed by .catch(() => {}); a scan that awaits the race goes on
FetchArrives(k, outcome) ==
    /\ k \in InFlight(task)
    /\ task' =
         LET settled == [task EXCEPT !.outcome[k] = outcome,
                                     !.corrections =
                                         IF outcome = "negative" THEN Append(@, k) ELSE @]
         IN  IF task.at = "race"
             THEN [settled EXCEPT !.at = "loop",
                                  !.queue = Cleaned(@, {k} \ {task.newest})]
             ELSE settled
    /\ reply' = reply
    /\ UNCHANGED <<webhookVars, fn, srv, levels, bulkOp, bulkFile, calls>>

\* the while loop ends (no next page, or the limit): await
\* Promise.allSettled(queue)
LoopEnds ==
    /\ task.at = "loop"
    /\ task.todo = 0
    /\ ~task.hasNext \/ LimitReached(task)
    /\ task' = [task EXCEPT !.at = "drain"]
    /\ UNCHANGED <<webhookVars, fn, srv, levels, bulkOp, bulkFile, calls, reply>>

\* allSettled resolves and the scan returns corrections: /auto-dry answers
\* with the count, /auto-fix answers at once when the list is empty and
\* goes on to applyBatches otherwise
PagedScanReturns ==
    /\ task.at = "drain"
    /\ \A i \in 1..Len(task.queue) : task.outcome[task.queue[i]] # "pending"
    /\ LET n == Len(task.corrections)
       IN  IF task.route = "auto-fix" /\ n > 0
           THEN /\ task' = [task EXCEPT !.at = "apply"]
                /\ reply' = reply
           ELSE /\ task' = [task EXCEPT !.at = "done"]
                /\ reply' = AdminReply(200, TRUE, task.route, n)
    /\ UNCHANGED <<webhookVars, fn, srv, levels, bulkOp, bulkFile, calls>>

PagedScanNext ==
    \/ PageQuery
    \/ \E outcome \in {"ok", "throws"} : PageArrives(outcome)
    \/ StartFetch
    \/ \E k \in CatalogVariants, outcome \in FetchOutcomes : FetchArrives(k, outcome)
    \/ LoopEnds
    \/ PagedScanReturns

PagedScanSpec == PagedScanInit /\ [][PagedScanNext]_vars

\* the page queries sent so far
PageQueries == Len(SelectSeq(calls, LAMBDA c : c.name = "ProductsVariantIds"))

\* the candidates in the array `corrections`
Pushed(t) == {t.corrections[i] : i \in 1..Len(t.corrections)}

\* the scan has returned its list to the route
Returned == task.at \in {"done", "apply"}

\* C31: with a max-page-count given the scan sends at most that many page
\* queries; it sends none after the remote reported no next page; and it
\* returns only when every fetch it started has settled, with every
\* candidate of the fetches that succeeded in the list.
C31_PagesBoundedAndComplete ==
    /\ task.limit.given => PageQueries <= task.limit.n
    /\ PageQueries <= Len(task.catalog)
    /\ Returned =>
         /\ InFlight(task) = {}
         /\ Pushed(task) =
                {k \in 1..Len(task.outcome) : task.outcome[k] = "negative"}
         /\ Len(task.corrections) = Cardinality(Pushed(task))

\* the fetches that failed
Failed(t) == {k \in 1..Len(t.outcome) : t.outcome[k] = "failed"}

\* C40: a variant fetch that fails does not abort the scan, adds no
\* candidate and does not show in the answer; a page query that fails ends
\* the scan with a 500 answer; a scan that returns has every candidate of the
\* fetches that succeeded.
C40_FetchFailureSwallowed ==
    [][/\ Failed(task') # Failed(task) =>
            /\ task'.at = (IF task.at = "race" THEN "loop" ELSE task.at)
            /\ task'.corrections = task.corrections
            /\ reply' = reply
       /\ (task.at = "page" /\ task'.at \notin {"page", "loop"}) =>
            /\ task'.at = "failed"
            /\ reply'.status = 500
       /\ task'.at = "failed" <=> reply'.status = 500
       /\ task.at = "failed" => task'.at = "failed" /\ reply' = reply
       /\ (task'.at = "failed" /\ task.at # "failed") => task.at \in {"page", "loop"}
       /\ (task'.at \in {"done", "apply"} /\ task.at = "drain") =>
            /\ Pushed(task') = {k \in 1..Len(task.outcome) : task.outcome[k] = "negative"}
            /\ Pushed(task') \cap Failed(task) = {}
            /\ task'.at = "done" =>
                 reply' = AdminReply(200, TRUE, task.route, Cardinality(Pushed(task')))
      ]_vars

\* /auto-dry has answered with one candidate after a scan in which a fetch
\* failed
C40_Witness ==
    /\ task.at = "done"
    /\ Failed(task) # {}
    /\ reply = AdminReply(200, TRUE, "auto-dry", 1)
    /\ Len(task.outcome) >= 2

----------------------------------------------------------------------------
(* Reading the export file: parseNdjsonLines and the scan of GET /bulk-dry *)

\* longest text, in pieces
MaxPieces == 4

\* a text is a sequence of pieces: the JSON of a product whose level is
\* negative ("neg") or healthy ("ok"), the JSON literal null, text that is
\* no JSON ("bad"), white space ("sp"), and the line ends \n and \r\n
Values == {"neg", "ok", "null"}
LineEnds == {"lf", "crlf"}
Pieces == Values \cup {"bad", "sp"} \cup LineEnds

Texts == UNION {[1..n -> Pieces] : n \in 0..MaxPieces}

\* str.split(/\r?\n/)
RECURSIVE SplitLines(_, _)
SplitLines(str, line) ==
    IF str = << >> THEN << line >>
    ELSE IF Head(str) \in LineEnds
         THEN << line >> \o SplitLines(Tail(str), << >>)
         ELSE SplitLines(Tail(str), Append(line, Head(str)))

\* line.trim()
RECURSIVE TrimStart(_)
TrimStart(line) ==
    IF line # << >> /\ Head(line) = "sp" THEN TrimStart(Tail(line)) ELSE line

RECURSIVE TrimEnd(_)
TrimEnd(line) ==
    IF line # << >> /\ line[Len(line)] = "sp"
    THEN TrimEnd(SubSeq(line, 1, Len(line) - 1))
    ELSE line

Trim(line) == TrimEnd(TrimStart(line))

\* JSON.parse(line): white space around one value is allowed; anything
\* else throws a SyntaxError
JsonParse(line) ==
    LET t == Trim(line)
    IN  IF Len(t) = 1 /\ t[1] \in Values
        THEN [threw |-> FALSE, value |-> t[1]]
        ELSE [threw |-> TRUE, value |-> "none"]

\* a parser without the try/catch: the first corrupt line ends the scan
RECURSIVE ParseLines_aborts(_)
ParseLines_aborts(lines) ==
    IF lines = << >> THEN << >>
    ELSE IF Trim(Head(lines)) = << >> THEN ParseLines_aborts(Tail(lines))
    ELSE IF JsonParse(Head(lines)).threw THEN << >>
    ELSE << JsonParse(Head(lines)).value >> \o ParseLines_aborts(Tail(lines))

\* for (const line of lines) { if (!line.trim()) continue;
\*   try { yield JSON.parse(line); } catch {} }
RECURSIVE ParseLines(_)
ParseLines(lines) ==
    IF lines = << >> THEN << >>
    ELSE IF Trim(Head(lines)) = << >> THEN ParseLines(Tail(lines))
    ELSE IF JsonParse(Head(lines)).threw THEN ParseLines(Tail(lines))
    ELSE << JsonParse(Head(lines)).value >> \o ParseLines(Tail(lines))

parseNdjsonLines(str) == ParseLines(SplitLines(str, << >>))

\* the level a product line carries
LevelOf(value) == IF value = "neg" THEN Negative ELSE Healthy

\* the loop of GET /bulk-dry over the records: a record without id (null)
\* is passed over, collectCorrectionsFromBulkProductNode gives the
\* corrections of the others
RECURSIVE CollectCorrections(_, _)
CollectCorrections(records, raise) ==
    IF records = << >> THEN << >>
    ELSE LET obj == Head(records)
             items == IF obj = "null" \/ ~shouldFix(LevelOf(obj), raise)
                      THEN << >>
                      ELSE << [inventoryItemId |-> obj, locationId |-> 1,
                               setOnHandTo |-> Target(LevelOf(obj), raise)] >>
         IN  items \o CollectCorrections(Tail(records), raise)

NdjsonInit ==
    /\ cfg = [build |-> "none", secret |-> NoSecret, bypass |-> FALSE]
    /\ WebhookAtRest
    /\ fn \in [op : {"file"}, text : Texts, raise : BOOLEAN]
    /\ AdminAtRest

\* GET /bulk-dry reads the file and scans it
BulkDryScan ==
    /\ fn.op = "file"
    /\ fn' = [op |-> "scanned", text |-> fn.text, raise |-> fn.raise,
              records |-> parseNdjsonLines(fn.text),
              candidates |-> CollectCorrections(parseNdjsonLines(fn.text), fn.raise)]
    /\ UNCHANGED <<webhookVars, adminVars>>

NdjsonNext == BulkDryScan

NdjsonSpec == NdjsonInit /\ [][NdjsonNext]_vars

\* the piece at position i is the value of a well-formed line: every other
\* piece between the line ends around it is white space
WellFormedAt(str, i) ==
    /\ str[i] \in Values
    /\ \A j \in 1..Len(str) :
          (j # i /\ \A m \in (IF j < i THEN j..i ELSE i..j) : str[m] \notin LineEnds)
          => str[j] = "sp"

\* the values of the well-formed lines, in the order of the text
RECURSIVE WellFormedValues(_, _)
WellFormedValues(str, i) ==
    IF i > Len(str) THEN << >>
    ELSE (IF WellFormedAt(str, i) THEN << str[i] >> ELSE << >>)
         \o WellFormedValues(str, i + 1)

\* lines that are blank or cannot be parsed
MalformedLines ==
    {<< >>, << "sp" >>, << "bad" >>, << "neg", "bad" >>, << "neg", "neg" >>}

\* the text with one more line, before the line that starts at piece i + 1
WithLine(str, i, line) ==
    SubSeq(str, 1, i) \o line \o << "lf" >> \o SubSeq(str, i + 1, Len(str))

\* C29: the scan of the export file yields the records of the well-formed
\* lines, in order, and nothing for a blank or unparseable line; a
\* malformed line added anywhere in the file leaves the candidates derived
\* from the other lines as they were.
C29_MalformedLinesSkipped ==
    fn.op = "scanned"
    => /\ fn.records = WellFormedValues(fn.text, 1)
       /\ \A line \in MalformedLines :
             /\ \A i \in 0..Len(fn.text) :
                   (i = 0 \/ fn.text[i] \in LineEnds)
                   => CollectCorrections(parseNdjsonLines(WithLine(fn.text, i, line)), fn.raise)
                      = fn.candidates
             /\ CollectCorrections(parseNdjsonLines(fn.text \o << "lf" >> \o line), fn.raise)
                = fn.candidates

\* a corrupt first line, and the record of the line after it was found
C29_Witness ==
    /\ fn.op = "scanned"
    /\ fn.text = << "bad", "crlf", "neg", "sp" >>
    /\ fn.records = << "neg" >>
    /\ Len(fn.candidates) = 1

----------------------------------------------------------------------------
(* The export of the second server: parent lines and child lines *)

\* longest export, in lines
MaxLines == 4

\* a parent line (an inventory item: id, variant, no __parentId), a child
\* line (an inventory level: __parentId, location, quantities), or a line
\* that is neither
ItemLine(id) == [kind |-> "item", id |-> id, parent |-> 0, available |-> 0]
LevelLine(parent, available) ==
    [kind |-> "level", id |-> 0, parent |-> parent, available |-> available]
OtherLine == [kind |-> "other", id |-> 0, parent |-> 0, available |-> 0]

ExportLines ==
    {ItemLine(id) : id \in {1, 2}}
    \cup {LevelLine(parent, a) : parent \in {1, 2}, a \in {-3, 5}}
    \cup {OtherLine}

Exports == UNION {[1..n -> ExportLines] : n \in 0..MaxLines}

\* the two routes that read the export: GET /bulk-plan-negatives and
\* POST /bulk-fix-negatives
ExportRoutes == {"/bulk-plan-negatives", "/bulk-fix-negatives"}

\* first loop: invIndex.set(obj.id, ...) for every line with a variant and
\* no __parentId; the keys of the index
RECURSIVE IndexParents(_)
IndexParents(file) ==
    IF file = << >> THEN {}
    ELSE (IF Head(file).kind = "item" THEN {Head(file).id} ELSE {})
         \cup IndexParents(Tail(file))

\* what a route pushes for a child line with available < 0
EntryOf(route, line) ==
    IF route = "/bulk-plan-negatives"
    THEN [inventoryItemId |-> line.parent, locationId |-> 1,
          available |-> line.available, setOnHandTo |-> -1]
    ELSE [inventoryItemId |-> line.parent, locationId |-> 1,
          available |-> 0, setOnHandTo |-> 0]

\* second loop: a child line whose parent is in the index and whose
\* available is below zero gives an entry
RECURSIVE ResolveChildren(_, _, _)
ResolveChildren(route, file, invIndex) ==
    IF file = << >> THEN << >>
    ELSE LET obj == Head(file)
         IN  (IF obj.kind = "level" /\ obj.parent \in invIndex /\ obj.available < 0
              THEN << EntryOf(route, obj) >>
              ELSE << >>)
             \o ResolveChildren(route, Tail(file), invIndex)

\* one loop that indexes and resolves as it goes
RECURSIVE ExportEntries_onePass(_, _)
ExportEntries_onePass(route, file) ==
    IF file = << >> THEN << >>
    ELSE LET n == Len(file)
             obj == file[n]
             before == SubSeq(file, 1, n - 1)
         IN  ExportEntries_onePass(route, before)
             \o (IF obj.kind = "level" /\ obj.parent \in IndexParents(before)
                     /\ obj.available < 0
                  THEN << EntryOf(route, obj) >>
                  ELSE << >>)

\* the two loops of a route over the same text
ExportEntries(route, file) == ResolveChildren(route, file, IndexParents(file))

ExportInit ==
    /\ cfg = [build |-> "none", secret |-> NoSecret, bypass |-> FALSE]
    /\ WebhookAtRest
    /\ fn \in [op : {"export"}, route : ExportRoutes, file : Exports]
    /\ AdminAtRest

\* a route reads the export and computes its entries
ReadExport ==
    /\ fn.op = "export"
    /\ fn' = [op |-> "resolved", route |-> fn.route, file |-> fn.file,
              entries |-> ExportEntries(fn.route, fn.file)]
    /\ UNCHANGED <<webhookVars, adminVars>>

ExportNext == ReadExport

ExportSpec == ExportInit /\ [][ExportNext]_vars

Range(seq) == {seq[i] : i \in 1..Len(seq)}

\* the file with lines i and j exchanged
Swapped(file, i, j) ==
    [k \in 1..Len(file) |-> IF k = i THEN file[j] ELSE IF k = j THEN file[i] ELSE file[k]]

\* C30: the set of corrections computed from an export of parent and child
\* lines is the same when any two lines change places (hence for every
\* permutation), and it holds the correction of every negative child line
\* whose parent line is in the file, before or after it.
C30_LineOrderIrrelevant ==
    fn.op = "resolved"
    => /\ \A i, j \in 1..Len(fn.file) :
             Range(ExportEntries(fn.route, Swapped(fn.file, i, j))) = Range(fn.entries)
       /\ \A k, m \in 1..Len(fn.file) :
             (/\ fn.file[k].kind = "level"
              /\ fn.file[k].available < 0
              /\ fn.file[m] = ItemLine(fn.file[k].parent))
             => EntryOf(fn.route, fn.file[k]) \in Range(fn.entries)

\* a child line before its parent line, resolved
C30_Witness ==
    /\ fn.op = "resolved"
    /\ fn.route = "/bulk-fix-negatives"
    /\ fn.file = << LevelLine(1, -3), OtherLine, ItemLine(1) >>
    /\ Len(fn.entries) = 1
    /\ fn.entries[1].inventoryItemId = 1
    /\ fn.entries[1].setOnHandTo = 0

----------------------------------------------------------------------------
(* The limits of GET /bulk-dry and GET /bulk-fix *)

\* most products in the export file
MaxProducts == 2

\* a variant of the file is the number of its levels that
\* collectCorrectionsFromBulkProductNode finds fixable; a product is the
\* sequence of its variants, a file the sequence of its products
FixableLevels == 0..2
Products == UNION {[1..n -> FixableLevels] : n \in 1..2}
Files == UNION {[1..n -> Products] : n \in 1..MaxProducts}

\* ?maxCorrections= and ?limitVariants=: req.query.x ? Number(req.query.x)
\* : null; 0 stands for null, 0 and NaN, which limit nothing
MaxCorrections == 0..3
LimitVariants == 0..2

\* the items of variant v of product p
ItemsOf(p, v, n) == [l \in 1..n |-> <<p, v, l>>]

\* for (const it of items) { corrections.push(it); if (maxCorrections &&
\* corrections.length >= maxCorrections) <leave> }
RECURSIVE PushUntil(_, _, _)
PushUntil(corrections, items, maxCorrections) ==
    IF items = << >> THEN corrections
    ELSE LET pushed == Append(corrections, Head(items))
         IN  IF maxCorrections # 0 /\ Len(pushed) >= maxCorrections
             THEN pushed
             ELSE PushUntil(pushed, Tail(items), maxCorrections)

\* the loop of /bulk-fix over the variants of a product: the break on
\* maxCorrections leaves the loop over the items only
RECURSIVE FixVariants(_, _, _, _, _, _, _)
FixVariants(variants, p, v, corrections, variantsSeen, maxCorrections, limitVariants) ==
    IF v > Len(variants) THEN [c |-> corrections, seen |-> variantsSeen]
    ELSE IF limitVariants # 0 /\ variantsSeen + 1 > limitVariants
    THEN [c |-> corrections, seen |-> variantsSeen + 1]
    ELSE FixVariants(variants, p, v + 1,
                     PushUntil(corrections, ItemsOf(p, v, variants[v]), maxCorrections),
                     variantsSeen + 1, maxCorrections, limitVariants)

\* the loop of /bulk-fix over the products, left after a product when a
\* limit is reached
RECURSIVE FixProducts(_, _, _, _, _, _)
FixProducts(file, p, corrections, variantsSeen, maxCorrections, limitVariants) ==
    IF p > Len(file) THEN corrections
    ELSE LET r == FixVariants(file[p], p, 1, corrections, variantsSeen,
                              maxCorrections, limitVariants)
         IN  IF \/ limitVariants # 0 /\ r.seen >= limitVariants
                \/ maxCorrections # 0 /\ Len(r.c) >= maxCorrections
             THEN r.c
             ELSE FixProducts(file, p + 1, r.c, r.seen, maxCorrections, limitVariants)

\* the loop of /bulk-dry over the variants: reaching maxCorrections answers
\* at once
RECURSIVE DryVariants(_, _, _, _, _, _, _)
DryVariants(variants, p, v, corrections, variantsSeen, maxCorrections, limitVariants) ==
    IF v > Len(variants) THEN [c |-> corrections, seen |-> variantsSeen, answered |-> FALSE]
    ELSE IF limitVariants # 0 /\ variantsSeen + 1 > limitVariants
    THEN [c |-> corrections, seen |-> variantsSeen + 1, answered |-> FALSE]
    ELSE LET pushed == PushUntil(corrections, ItemsOf(p, v, variants[v]), maxCorrections)
         IN  IF variants[v] > 0 /\ maxCorrections # 0 /\ Len(pushed) >= maxCorrections
             THEN [c |-> pushed, seen |-> variantsSeen + 1, answered |-> TRUE]
             ELSE DryVariants(variants, p, v + 1, pushed, variantsSeen + 1,
                              maxCorrections, limitVariants)

RECURSIVE DryProducts(_, _, _, _, _, _)
DryProducts(file, p, corrections, variantsSeen, maxCorrections, limitVariants) ==
    IF p > Len(file) THEN corrections
    ELSE LET r == DryVariants(file[p], p, 1, corrections, variantsSeen,
                              maxCorrections, limitVariants)
         IN  IF r.answered \/ (limitVariants # 0 /\ r.seen >= limitVariants)
             THEN r.c
             ELSE DryProducts(file, p + 1, r.c, r.seen, maxCorrections, limitVariants)

\* a request has not been made yet
NotYet == << <<0, 0, 0>> >>

LimitsInit ==
    /\ cfg = [build |-> "none", secret |-> NoSecret, bypass |-> FALSE]
    /\ WebhookAtRest
    /\ fn \in [op : {"limits"}, file : Files, maxCorrections : MaxCorrections,
               limitVariants : LimitVariants, dry : {NotYet}, fix : {NotYet}]
    /\ srv = [rev |-> "srvA", hasCreds |-> TRUE]
    /\ levels = << >>
    /\ bulkOp = [status |-> "none"]
    /\ bulkFile = [exists |-> TRUE]
    /\ calls = << >>
    /\ task = [at |-> "none"]
    /\ reply = [status |-> 0]

\* GET /bulk-dry with the limits: answers with the corrections it found
BulkDryLimited ==
    /\ fn.dry = NotYet
    /\ LET corrections == DryProducts(fn.file, 1, << >>, 0, fn.maxCorrections,
                                      fn.limitVariants)
       IN  /\ fn' = [fn EXCEPT !.dry = corrections]
           /\ reply' = AdminReply(200, TRUE, "dry-run", Len(corrections))
    /\ UNCHANGED <<webhookVars, srv, levels, bulkOp, bulkFile, calls, task>>

\* GET /bulk-fix with the limits: applyBatches sends the corrections it
\* found, which fit in one call
BulkFixLimited ==
    /\ fn.fix = NotYet
    /\ LET corrections == FixProducts(fn.file, 1, << >>, 0, fn.maxCorrections,
                                      fn.limitVariants)
       IN  /\ fn' = [fn EXCEPT !.fix = corrections]
           /\ calls' = IF corrections = << >> THEN calls
                       ELSE Append(calls, Mutation("inventorySetOnHandQuantities",
                                                   corrections))
           /\ reply' = AdminReply(200, TRUE, "fix", Len(corrections))
    /\ UNCHANGED <<webhookVars, srv, levels, bulkOp, bulkFile, task>>

LimitsNext ==
    \/ BulkDryLimited
    \/ BulkFixLimited

LimitsSpec == LimitsInit /\ [][LimitsNext]_vars

\* the corrections sent to the remote so far
SentCount ==
    IF calls = << >> THEN 0 ELSE Len(calls[1].arg)

\* C38: /bulk-fix called with maxCorrections = M sends no more than M
\* corrections, whatever the file.
C38_MaxCorrectionsRespected ==
    fn.maxCorrections > 0 => SentCount <= fn.maxCorrections

\* C39: with the same file and the same parameters the dry run reports the
\* corrections that the fix sends: the same records in the same number.
C39_DryMatchesFix ==
    (fn.dry # NotYet /\ fn.fix # NotYet) => fn.dry = fn.fix

----------------------------------------------------------------------------
(* Identifiers: gid and toGidVariant *)

\* longest identifier, in pieces
MaxIdLen == 3

\* an identifier as received is a text made of pieces: the prefix "gid://",
\* the rest of a global id, a bare number, white space; the empty text
\* stands for every falsy value (absent, null, 0, ''), which String(id || '')
\* turns into ''
IdPieces == {"gid://", "shopify/Location/", "111", "sp"}
Identifiers == UNION {[1..n -> IdPieces] : n \in 0..MaxIdLen}

\* the normalisers: gid(type, id) of the webhook server with its two types,
\* and toGidVariant(idOrGid) of the admin server
Normalisers == {"InventoryItem", "Location", "ProductVariant"}

\* s.startsWith('gid://')
StartsWithGid(s) == s # << >> /\ s[1] = "gid://"

\* `gid://shopify/${type}/${s}`
Wrap(type, s) == <<"gid://", "shopify/" \o type \o "/">> \o s

\* toGidVariant(idOrGid): const s = String(idOrGid || ''), with no trim
toGidVariant(idOrGid) ==
    IF StartsWithGid(idOrGid) THEN idOrGid ELSE Wrap("ProductVariant", idOrGid)

\* a normaliser that wraps whatever it is given
gidText_alwaysWraps(type, id) == Wrap(type, Trim(id))

\* gid(type, id) on any text, where the webhook model above has it on the
\* numbers of its payloads: const s = String(id || '').trim()
gidText(type, id) ==
    LET s == Trim(id)
    IN  IF StartsWithGid(s) THEN s ELSE Wrap(type, s)

\* the normaliser of the given type
NormaliseAs(type, id) ==
    IF type = "ProductVariant" THEN toGidVariant(id) ELSE gidText(type, id)

GidInit ==
    /\ cfg = [build |-> "none", secret |-> NoSecret, bypass |-> FALSE]
    /\ WebhookAtRest
    /\ fn \in [op : {"id"}, type : Normalisers, id : Identifiers]
    /\ AdminAtRest

\* the identifier is normalised, and the result is normalised again
Normalise ==
    /\ fn.op = "id"
    /\ fn' = [op |-> "gid", type |-> fn.type, id |-> fn.id,
              once |-> NormaliseAs(fn.type, fn.id),
              twice |-> NormaliseAs(fn.type, NormaliseAs(fn.type, fn.id))]
    /\ UNCHANGED <<webhookVars, adminVars>>

GidNext == Normalise

GidSpec == GidInit /\ [][GidNext]_vars

\* a global id as the platform writes it: the prefix first and no white
\* space around it
GlobalForm(s) == StartsWithGid(s) /\ Trim(s) = s

\* C32: the identifier that goes out starts with gid://; a bare identifier
\* comes out wrapped, an identifier already in the global form comes out
\* unchanged, and normalising the result again changes nothing.
C32_Normalised ==
    fn.op = "gid" =>
        /\ StartsWithGid(fn.once)
        /\ GlobalForm(fn.id) => fn.once = fn.id
        /\ (fn.id # << >> /\ ~StartsWithGid(Trim(fn.id)) /\ fn.type # "ProductVariant")
               => fn.once = Wrap(fn.type, Trim(fn.id))
        /\ (fn.id # << >> /\ ~StartsWithGid(fn.id) /\ fn.type = "ProductVariant")
               => fn.once = Wrap(fn.type, fn.id)
        /\ fn.twice = fn.once

\* a bare number with white space around it, and a global id, normalised
C32_Witness ==
    /\ fn.op = "gid"
    /\ fn.type = "InventoryItem"
    /\ fn.id = <<"sp", "111", "sp">>
    /\ fn.once = <<"gid://", "shopify/InventoryItem/", "111">>
    /\ fn.twice = fn.once

----------------------------------------------------------------------------
(* A deployment without SHOPIFY_SHOP or SHOPIFY_ADMIN_TOKEN *)

\* the webhook server (its builds only warn at startup, and their
\* shopifyGraphQL builds the URL and calls fetch without looking at SHOP or
\* TOKEN), or an admin server (whose shopifyGraphQL throws first)
UnconfiguredInit ==
    \/ /\ cfg \in {c \in [build : Builds, secret : Secrets, bypass : BOOLEAN,
                          creds : {FALSE}] :
                       c.bypass => c.build \in BypassBuilds}
       /\ WebhookAtRest
       /\ fn = NoCall
       /\ AdminAtRest
    \/ AdminInit /\ ~srv.hasCreds

\* a fetch to https://undefined/... rejects, and a call without a token is
\* answered with errors: either way shopifyGraphQL throws
UnconfiguredNext ==
    \/ WebhookRuns /\ \E body \in Bodies : \E sig \in SigHeaders(cfg.secret, body) :
                          Webhook(body, sig)
    \/ WebhookRuns /\ \E p \in pending : RemoteAnswer(p)
    \/ WebhookRuns /\ \E p \in pending : Resume(p, "throw")
    \/ WebhookRuns /\ \E step \in TickSteps : Tick(step)
    \/ AdminRuns /\ BulkStart
    \/ AdminRuns /\ BulkCancel
    \/ AdminRuns /\ \E fetched \in BOOLEAN : BulkDownload(fetched)
    \/ AdminRuns /\ \E v \in VariantParams : \E raise \in BOOLEAN : VariantDry(v, raise)
    \/ AdminRuns /\ \E raise \in BOOLEAN : AutoDry(raise)
    \/ AdminRuns /\ \E raise \in BOOLEAN : BulkDry(raise)
    \/ AdminRuns /\ \E raise \in BOOLEAN : \E o \in ChunkOutcomes : VariantFix(raise, o)
    \/ AdminRuns /\ \E raise \in BOOLEAN : \E o \in ChunkOutcomes : BulkFix(raise, o)

UnconfiguredSpec == UnconfiguredInit /\ [][UnconfiguredNext]_vars

\* C33: without credentials no outbound call is attempted, by the webhook
\* server or by the admin server, and a request that needs the remote is
\* answered with an error: the only answers that are ok come from the export
\* file.
C33_FailFast ==
    /\ mutations = << >>
    /\ pending = {}
    /\ calls = << >>
    /\ (AdminRuns /\ reply.ok) => bulkFile.exists
    /\ (WebhookRuns /\ last.step = "resume") => last.resp = CaughtError

----------------------------------------------------------------------------
(* GET /env-check *)

\* a variable of process.env: unset, or one of two values
Unset == "unset"
EnvValues == {Unset, "a", "b"}

\* BYPASS_HMAC is compared with '1'
FlagValues == {Unset, "1", "0"}

Envs ==
    [SHOPIFY_SHOP : EnvValues, SHOPIFY_API_VERSION : EnvValues,
     SHOPIFY_ADMIN_TOKEN : EnvValues, SHOPIFY_WEBHOOK_SECRET : EnvValues,
     BYPASS_HMAC : FlagValues]

\* revisions of the endpoint: src/server.js:336-342 (the same in 793-799
\* and in part_003) and src/unnamed/part_005:118-126
EnvCheckRevs == {"srvA", "p005"}

\* x || null
OrNull(x) == IF x = Unset THEN "null" ELSE x

\* !!x
Has(x) == x # Unset

\* process.env.SHOPIFY_API_VERSION || '2024-04'
ApiVersionOf(e) ==
    IF e.SHOPIFY_API_VERSION = Unset THEN "2024-04" ELSE e.SHOPIFY_API_VERSION

\* the body GET /env-check answers with
EnvCheckBody(rev, e) ==
    IF rev = "srvA"
    THEN [SHOPIFY_SHOP |-> OrNull(e.SHOPIFY_SHOP),
          SHOPIFY_API_VERSION |-> OrNull(e.SHOPIFY_API_VERSION),
          HAS_TOKEN |-> Has(e.SHOPIFY_ADMIN_TOKEN)]
    ELSE [SHOPIFY_SHOP |-> OrNull(e.SHOPIFY_SHOP),
          SHOPIFY_API_VERSION |-> ApiVersionOf(e),
          HAS_TOKEN |-> Has(e.SHOPIFY_ADMIN_TOKEN),
          HAS_WEBHOOK_SECRET |-> Has(e.SHOPIFY_WEBHOOK_SECRET),
          BYPASS_HMAC |-> (e.BYPASS_HMAC = "1")]

EnvInit ==
    /\ cfg = [build |-> "none", secret |-> NoSecret, bypass |-> FALSE]
    /\ WebhookAtRest
    /\ fn \in [op : {"env"}, rev : EnvCheckRevs, env : Envs]
    /\ AdminAtRest

\* GET /env-check is served
EnvCheck ==
    /\ fn.op = "env"
    /\ fn' = [op |-> "env-check", rev |-> fn.rev, env |-> fn.env,
              body |-> EnvCheckBody(fn.rev, fn.env)]
    /\ UNCHANGED <<webhookVars, adminVars>>

EnvNext == EnvCheck

EnvSpec == EnvInit /\ [][EnvNext]_vars

\* the same variables are set in both environments
SamePresence(e1, e2) == \A v \in DOMAIN e1 : (e1[v] = Unset) <=> (e2[v] = Unset)

\* C20: the response of GET /env-check is the same for any two
\* environments that set the same variables, whatever their values.
C20_EnvCheckHidesValues ==
    fn.op = "env-check"
    => \A e2 \in Envs :
          SamePresence(fn.env, e2) => EnvCheckBody(fn.rev, e2) = fn.body

====
